---- MODULE Spec2Model ----
(***************************************************************************)
(* The PseudoLang tree-walking evaluator (src/src/interpreter.rs) as a     *)
(* state machine.  evaluate_node is recursive; its activations that hold   *)
(* state across a nested evaluation are the frames of `stack`, and the     *)
(* Environment chain (parent links) is the sequence `envs`, innermost      *)
(* last.  The program being run is not fixed: in every state the next      *)
(* statement or expression is chosen among the node kinds, so a behaviour  *)
(* of the machine is the run of some program, and every program over the   *)
(* modelled node kinds (within the bounds) has its run among them.         *)
(***************************************************************************)
EXTENDS Integers, Sequences, FiniteSets, TLC

VARIABLES
    stack,   \* activations of evaluate_node, outermost first
    envs,    \* the Environment chain, root first (parent of envs[i] is envs[i-1])
    mode,    \* "exec" | "eval" | "val" | "err" | "done" | "fail" | "abort"
    acc,     \* the Value (or error message) being passed between activations
    depth,   \* CURRENT_STACK_DEPTH
    log,     \* history: every text appended to an output buffer, in execution order
    hist     \* history: flags about the run so far

vars == <<stack, envs, mode, acc, depth, log, hist>>

(***************************************************************************)
(* Bounds of the model.                                                    *)
(***************************************************************************)
MaxFrames == 4      \* activations on `stack`
MaxShown == 2       \* output operations executed in one run
MaxLen == 2         \* elements of a list value
MaxWrites == 3      \* plain assignments and list operations executed in one run
MaxNesting == 2     \* compound statements inside one another

(***************************************************************************)
(* Program constants.  Both are scaled down from the source's values       *)
(* (10000000 and 1000000) so that the limits are reached; every guard      *)
(* reads them by name only.                                                *)
(***************************************************************************)
MAX_STACK_DEPTH == 1
max_iterations == 2

(***************************************************************************)
(* Values (enum Value).                                                    *)
(***************************************************************************)
IntV(i) == [t |-> "Int", n |-> i]
BoolV(b) == [t |-> "Bool", b |-> b]
StrV(s) == [t |-> "Str", s |-> s]
ListV(l, id) == [t |-> "List", l |-> l, id |-> id]    \* l: Values; id: the Vec that holds l
Unit == [t |-> "Unit"]
None == [t |-> "None"]              \* Option::None
FloatV(n, d) == [t |-> "Float", n |-> n, d |-> d]     \* the f64 n / d, d > 0
Null == [t |-> "Null"]
NaN == [t |-> "NaN"]

Names == {"x", "y", "e"}

\* Texts are tokens: the k-th text appended in a run is the number k, and
\* NL stands for the newline character.
NL == 0

ReturnSignal == "Return"
StackOverflowMsg == "Stack overflow: maximum recursion depth exceeded"
MaxIterationsMsg == "Maximum loop iterations exceeded"
DivisionByZeroMsg == "Division by zero"
ProcNotFoundMsg == "Procedure 'f' not found"
CondNotBoolMsg == "Condition must be a boolean"
UntilNotBoolMsg == "REPEAT UNTIL condition must evaluate to boolean"
CountNotIntMsg == "REPEAT count must be an integer"
IndexOutOfBoundsMsg == "List index out of bounds"
NotAListMsg(name) == "Variable " \o name \o " is not a list"
UndefinedMsg(name) == "Undefined variable: " \o name

(***************************************************************************)
(* Environment (struct Environment): variables, output, return_value.      *)
(***************************************************************************)
NoVars == [v \in Names |-> None]

NewEnv(variables) == [vars |-> variables, out |-> <<>>, ret |-> None]

Top == stack[Len(stack)]
Pop(s) == SubSeq(s, 1, Len(s) - 1)
CurEnv == envs[Len(envs)]

\* The frames whose statement list is being executed.
BlockFrame(f) ==
    \/ f.k \in {"Program", "Try"}
    \/ f.k \in {"If", "Times", "Until", "Call"} /\ f.ph = "body"

(***************************************************************************)
(* Value::clone.  A Value::List owns its Vec.  The model names a Vec by    *)
(* the variable slot that owns it; a Vec that no variable owns yet (a      *)
(* literal, the result of a clone) is named Temp until it is moved into a  *)
(* slot.                                                                   *)
(***************************************************************************)
Temp == <<0, "">>
Slot(i, name) == <<i, name>>

\* variant: the copy shares the Vec of the original
CloneShared(v) == v

\* a new Vec with the same elements
Clone(v) == IF v.t = "List" THEN ListV(v.l, Temp) ELSE v

\* HashMap::insert takes the value: the slot owns the Vec from now on
Move(v, slot) == IF v.t = "List" /\ v.id = Temp THEN ListV(v.l, slot) ELSE v

(***************************************************************************)
(* Environment::get and Environment::set.                                  *)
(***************************************************************************)
RECURSIVE EnvGet(_, _)
EnvGet(chain, name) ==
    IF chain = <<>> THEN None
    ELSE IF chain[Len(chain)].vars[name] # None
            THEN Clone(chain[Len(chain)].vars[name])
    ELSE EnvGet(Pop(chain), name)

\* variant: the write goes to the nearest environment that binds the name
EnvSetNearest(chain, name, value) ==
    LET binders == {i \in DOMAIN chain : chain[i].vars[name] # None}
        target == IF binders = {} THEN Len(chain)
                  ELSE CHOOSE i \in binders : \A j \in binders : j <= i
    IN [chain EXCEPT ![target].vars[name] = Move(value, Slot(target, name))]

EnvSet(chain, name, value) ==
    [chain EXCEPT ![Len(chain)].vars[name] = Move(value, Slot(Len(chain), name))]

\* variant: the child's bindings are stored in the parent with its output
MergeBindings(chain) ==
    LET child == chain[Len(chain)]
        parent == chain[Len(chain) - 1]
    IN [Pop(chain) EXCEPT ![Len(chain) - 1] =
           [parent EXCEPT !.out = @ \o child.out,
                          !.vars = [v \in Names |-> IF child.vars[v] # None
                                                      THEN child.vars[v]
                                                      ELSE parent.vars[v]]]]

\* env.borrow_mut().output.push_str(&child.borrow().output), the child dropped
MergeOutput(chain) ==
    [Pop(chain) EXCEPT ![Len(chain) - 1].out = @ \o chain[Len(chain)].out]

\* the child environment dropped without its output being pushed
DropEnv(chain) == Pop(chain)

PushOutput(chain, text) ==
    [chain EXCEPT ![Len(chain)].out = @ \o text]

(***************************************************************************)
(* Initial state: run() / run_with_source() on a Program node.             *)
(***************************************************************************)
\* watch: the history flags that the specification records
InitWatching(watch) ==
    /\ stack = <<[k |-> "Program"]>>
    /\ envs = <<NewEnv(NoVars)>>
    /\ mode = "exec"
    /\ acc = Unit
    /\ depth = 0
    /\ log = <<>>
    /\ hist = [watch |-> watch, raised |-> FALSE, echoed |-> FALSE, deep |-> FALSE,
               copied |-> FALSE, changed |-> FALSE, writes |-> 0, text |-> ""]

Init == InitWatching({"raised", "echoed"})

(***************************************************************************)
(* Helpers of the actions.                                                 *)
(***************************************************************************)
ErrMsgs == {DivisionByZeroMsg}
Params == <<"x">>
ArgCounts == {0, 1}
CatchVars == {"", "e"}          \* "" : CATCH without a variable
AssignNames == {"x"}

Min(a, b) == IF a < b THEN a ELSE b

\* variant: the check lets one more level through
ExceededLate(d) == d > MAX_STACK_DEPTH + 1

\* the depth check at the head of evaluate_node
Exceeded(d) == d > MAX_STACK_DEPTH

CanPush == Len(stack) < MaxFrames

NextText == Cardinality({i \in DOMAIN log : log[i] # NL}) + 1

WritesOutput(f) == f.k = "Display" \/ (f.k = "Assign" /\ f.fmt)

PendingTexts == Cardinality({i \in DOMAIN stack : WritesOutput(stack[i])})

CanShow == NextText + PendingTexts <= MaxShown

PendingWrites ==
    Cardinality({i \in DOMAIN stack : stack[i].k = "Assign" /\ ~stack[i].fmt})

CanWrite == hist.writes + PendingWrites < MaxWrites

\* number of ProcedureCall activations on the stack
CallNesting(s) == Cardinality({i \in DOMAIN s : s[i].k = "Call"})

Go(st, en, md, a) ==
    /\ stack' = st
    /\ envs' = en
    /\ mode' = md
    /\ acc' = a

\* Ok(v) handed to the activation on top of st
Deliver(st, en, v) ==
    Go(st, en, IF BlockFrame(st[Len(st)]) THEN "exec" ELSE "val", v)

\* Err(msg) handed to the activation on top of st
Raise(st, en, msg) == Go(st, en, "err", StrV(msg))

\* history flags, read off the step just taken: a runtime error was raised,
\* an assignment echoed its value, the call nesting went over the limit, a
\* list was read from a variable to be stored, a list operation followed;
\* and the string that DISPLAY rendered last
Tracked(echo, copy, change, write, text) ==
    LET Seen(flag, now) == hist[flag] \/ (flag \in hist.watch /\ now)
    IN [watch |-> hist.watch,
        raised |-> Seen("raised", /\ mode' = "err"
                                  /\ acc' # StrV(ReturnSignal)
                                  /\ (mode # "err" \/ acc' # acc)),
        echoed |-> Seen("echoed", echo),
        deep |-> Seen("deep", CallNesting(stack') > MAX_STACK_DEPTH),
        copied |-> Seen("copied", copy),
        changed |-> Seen("changed", hist.copied /\ change),
        writes |-> IF write THEN hist.writes + 1 ELSE hist.writes,
        text |-> IF "text" \in hist.watch THEN text ELSE hist.text]

TrackWith(echo, copy, change, write) ==
    hist' = Tracked(echo, copy, change, write, hist.text)

Track(echo) == TrackWith(echo, FALSE, FALSE, FALSE)

TrackShown(text) == hist' = Tracked(FALSE, FALSE, FALSE, FALSE, text)

\* evaluate_node(block, env) called from inside an arm: the depth check, then
\* the statement list with last_value = Unit; on failure the error is handed
\* to the activation on top of errSt
EnterBlock(d, okSt, okEn, errSt, errEn) ==
    IF Exceeded(d) THEN Raise(errSt, errEn, StackOverflowMsg)
    ELSE Go(okSt, okEn, "exec", Unit)

SetTop(s, f) == [s EXCEPT ![Len(s)] = f]

\* the innermost procedure body on the stack (0: none)
NearestCall(s) ==
    LET bodies == {i \in DOMAIN s : s[i].k = "Call" /\ s[i].ph = "body"}
    IN IF bodies = {} THEN 0 ELSE CHOOSE i \in bodies : \A j \in bodies : j <= i

\* history: the call whose body executed RETURN remembers the value
MarkReturn(s, v) ==
    IF NearestCall(s) = 0 THEN s ELSE [s EXCEPT ![NearestCall(s)].rv = v]

(***************************************************************************)
(* Node entry.  A statement starts in mode "exec"; an expression is        *)
(* evaluated in mode "eval" (for the activation on top) or in mode "exec"  *)
(* (an expression statement).                                              *)
(***************************************************************************)
\* evaluate_node, lines 187-191: the check that fails
StackOverflow ==
    /\ mode \in {"exec", "eval"}
    /\ Exceeded(depth)
    /\ Raise(stack, envs, StackOverflowMsg)
    /\ UNCHANGED <<depth, log>>
    /\ Track(FALSE)

\* a literal, or any expression without a call that evaluates to v
EvalAtom(v) ==
    /\ mode \in {"exec", "eval"}
    /\ ~Exceeded(depth)
    /\ Deliver(stack, envs, v)
    /\ UNCHANGED <<depth, log>>
    /\ Track(FALSE)

\* history: a REPEAT n TIMES whose count is being evaluated remembers the
\* variable the count was read from
NoteRead(s, name) ==
    IF mode = "eval" /\ s[Len(s)].k = "Times"
       THEN [s EXCEPT ![Len(s)].src = name] ELSE s

\* AstNode::Identifier
EvalIdentifier(name) ==
    /\ mode \in {"exec", "eval"}
    /\ ~Exceeded(depth)
    /\ IF EnvGet(envs, name) = None
          THEN Raise(stack, envs, UndefinedMsg(name))
          ELSE Deliver(NoteRead(stack, name), envs, EnvGet(envs, name))
    /\ UNCHANGED <<depth, log>>
    /\ TrackWith(FALSE,
                 /\ EnvGet(envs, name).t = "List"
                 /\ mode = "eval"
                 /\ Top.k \in {"Assign", "Call"},
                 FALSE, FALSE)

\* AstNode::List with literal elements: a new Vec
EvalList(l) ==
    /\ mode \in {"exec", "eval"}
    /\ ~Exceeded(depth)
    /\ Deliver(stack, envs, ListV(l, Temp))
    /\ UNCHANGED <<depth, log>>
    /\ Track(FALSE)

\* any expression without a call that fails, such as 1 / 0
EvalFail(msg) ==
    /\ mode \in {"exec", "eval"}
    /\ ~Exceeded(depth)
    /\ Raise(stack, envs, msg)
    /\ UNCHANGED <<depth, log>>
    /\ Track(FALSE)

\* i64::to_string
Digit(d) == <<"0", "1", "2", "3", "4", "5", "6", "7", "8", "9">>[d + 1]

RECURSIVE Digits(_)
Digits(n) == IF n < 10 THEN Digit(n) ELSE Digits(n \div 10) \o Digit(n % 10)

Decimal(n) == IF n < 0 THEN "-" \o Digits(-n) ELSE Digits(n)

\* f64::to_string, for the floats with an integer or a half-integer value
FloatToString(n, d) ==
    IF d = 1 THEN Decimal(n)
    ELSE IF d = 2
            THEN (IF n < 0 THEN "-" ELSE "") \o Digits((IF n < 0 THEN -n ELSE n) \div 2)
                 \o ".5"
    ELSE Decimal(n) \o "/" \o Decimal(d)

\* elements_str.join(", ")
RECURSIVE Join(_)
Join(strs) ==
    IF strs = <<>> THEN ""
    ELSE IF Len(strs) = 1 THEN strs[1]
    ELSE strs[1] \o ", " \o Join(Tail(strs))

RECURSIVE value_to_string(_)
value_to_string(value) ==
    CASE value.t = "Int" -> Decimal(value.n)
      [] value.t = "Float" -> FloatToString(value.n, value.d)
      [] value.t = "Str" -> value.s
      [] value.t = "Bool" -> IF value.b THEN "true" ELSE "false"
      [] value.t = "List" ->
            "[" \o Join([i \in DOMAIN value.l |-> value_to_string(value.l[i])]) \o "]"
      [] value.t = "Unit" -> ""
      [] value.t = "Null" -> "NULL"
      [] value.t = "NaN" -> "NAN"

\* AstNode::Display(Some(expr)) and AstNode::DisplayInline(expr): evaluate expr
BeginDisplay(inline) ==
    /\ mode = "exec"
    /\ ~Exceeded(depth)
    /\ CanPush /\ CanShow
    /\ Go(Append(stack, [k |-> "Display", inline |-> inline]), envs, "eval", Unit)
    /\ UNCHANGED <<depth, log>>
    /\ Track(FALSE)

\* ... then push the text (and the newline) on the current environment's
\* output.  In the buffers the text is its token; the history keeps the
\* string value_to_string made.
DisplayValue ==
    /\ mode = "val"
    /\ Top.k = "Display"
    /\ LET text == IF Top.inline THEN <<NextText>> ELSE <<NextText, NL>>
       IN /\ Deliver(Pop(stack), PushOutput(envs, text),
                     IF Top.inline THEN Unit ELSE acc)
          /\ log' = log \o text
    /\ UNCHANGED depth
    /\ TrackShown(value_to_string(acc))

\* AstNode::Assignment(target, value): evaluate value
BeginAssignment(name, formatted) ==
    /\ mode = "exec"
    /\ ~Exceeded(depth)
    /\ CanPush
    /\ IF formatted THEN CanShow ELSE CanWrite
    /\ Go(Append(stack, [k |-> "Assign", var |-> name, fmt |-> formatted]),
          envs, "eval", Unit)
    /\ UNCHANGED <<depth, log>>
    /\ Track(FALSE)

\* ... then echo a FormattedString value and set the variable to val.clone()
AssignmentValue ==
    /\ mode = "val"
    /\ Top.k = "Assign"
    /\ LET text == IF Top.fmt THEN <<NextText, NL>> ELSE <<>>
       IN /\ Deliver(Pop(stack),
                     EnvSet(PushOutput(envs, text), Top.var, Clone(acc)), acc)
          /\ log' = log \o text
    /\ UNCHANGED depth
    /\ TrackWith(Top.fmt, FALSE, FALSE, ~Top.fmt)

\* AstNode::Return(expr): evaluate expr
BeginReturn ==
    /\ mode = "exec"
    /\ ~Exceeded(depth)
    /\ CanPush
    /\ Go(Append(stack, [k |-> "Return"]), envs, "eval", Unit)
    /\ UNCHANGED <<depth, log>>
    /\ Track(FALSE)

\* ... then env.return_value = Some(value); Err("Return")
ReturnValue ==
    /\ mode = "val"
    /\ Top.k = "Return"
    /\ Raise(MarkReturn(Pop(stack), acc), [envs EXCEPT ![Len(envs)].ret = acc],
             ReturnSignal)
    /\ UNCHANGED <<depth, log>>
    /\ Track(FALSE)

(***************************************************************************)
(* i64.  Value::Integer is an i64; the model keeps the two's complement    *)
(* arithmetic at the width IntBits.  Where the build decides what an       *)
(* overflowing i64 operation does (a panic with overflow checks, the       *)
(* wrapped value without), both outcomes are in the result set.            *)
(***************************************************************************)
IntBits == 4

RECURSIVE Pow2(_)
Pow2(k) == IF k = 0 THEN 1 ELSE 2 * Pow2(k - 1)

i64_MAX == Pow2(IntBits - 1) - 1
i64_MIN == -Pow2(IntBits - 1)

InRange(x) == i64_MIN <= x /\ x <= i64_MAX

\* the two's complement value of x at the width
Wrap(x) == ((x - i64_MIN) % Pow2(IntBits)) + i64_MIN

Abs(x) == IF x < 0 THEN -x ELSE x

\* i64 `/` and `%`: the quotient truncated toward zero and its remainder
TruncDiv(a, b) ==
    LET q == Abs(a) \div Abs(b)
    IN IF (a < 0) # (b < 0) THEN -q ELSE q

TruncRem(a, b) == a - b * TruncDiv(a, b)

\* Result<Value, String>, and the panic that aborts the process
Ok(v) == [r |-> "Ok", v |-> v]
Err(msg) == [r |-> "Err", v |-> StrV(msg)]
Panic == [r |-> "Panic", v |-> Unit]

\* an i64 operation with the exact result x
IntOp(x) == IF InRange(x) THEN {Ok(IntV(x))} ELSE {Ok(IntV(Wrap(x))), Panic}

\* the value an i64 subexpression with the exact result x has when it
\* does not panic
Term(x) == Wrap(x)

(***************************************************************************)
(* APPEND, INSERT, REMOVE and indexed assignment on a list variable, with  *)
(* literal operands.  Each arm reads the variable with Environment::get,   *)
(* clones the elements, changes the clone and sets the variable in the     *)
(* current environment.                                                    *)
(***************************************************************************)
ElemVals == {1, 2}
Indices == {1, 2}
ListNames == {"x", "y"}

InvalidIndexAccessMsg == "Invalid index access - expected list or string and integer index"
InvalidNestedMsg == "Invalid nested list assignment"
IndexBelowMsg == "List index out of bounds: index cannot be less than 1"
IndexAboveMsg(i, size) ==
    "List index out of bounds: " \o Decimal(i) \o " (size: " \o Decimal(size) \o ")"

InsertAt(l, idx, v) == SubSeq(l, 1, idx) \o <<v>> \o SubSeq(l, idx + 1, Len(l))
RemoveAt(l, idx) == SubSeq(l, 1, idx) \o SubSeq(l, idx + 2, Len(l))

\* a write through the Vec id: every holder of that Vec sees the elements l
WriteVec(chain, id, l) ==
    [i \in DOMAIN chain |->
        [chain[i] EXCEPT !.vars =
            [n \in Names |->
                IF chain[i].vars[n].t = "List" /\ chain[i].vars[n].id = id
                   THEN ListV(l, id) ELSE chain[i].vars[n]]]]

\* variant: the changed list is stored where the name is bound
SetChangedWhereBound(chain, name, elements, l) ==
    EnvSetNearest(chain, name, ListV(l, Temp))

\* let mut new_elements = elements.clone(); <change>; env.set(name, List(new_elements))
SetChanged(chain, name, elements, l) ==
    LET new_elements == Clone(elements)
    IN EnvSet(WriteVec(chain, new_elements.id, l), name, ListV(l, new_elements.id))

\* the process aborts with a panic
Abort == Go(stack, envs, "abort", acc)

\* let idx = i - 1
Idx(i) == IntOp(i - 1)

\* AstNode::ListAppend | AstNode::Append
ListAppend(name, v) ==
    /\ mode = "exec"
    /\ ~Exceeded(depth)
    /\ CanWrite
    /\ LET elements == EnvGet(envs, name)
       IN IF elements.t # "List"
             THEN /\ Raise(stack, envs, NotAListMsg(name))
                  /\ Track(FALSE)
             ELSE /\ Len(elements.l) < MaxLen
                  /\ Deliver(stack,
                             SetChanged(envs, name, elements,
                                        Append(elements.l, IntV(v))),
                             IntV(v))
                  /\ TrackWith(FALSE, FALSE, TRUE, TRUE)
    /\ UNCHANGED <<depth, log>>

\* AstNode::ListInsert | AstNode::Insert
ListInsert(name, i, v) ==
    /\ mode = "exec"
    /\ ~Exceeded(depth)
    /\ CanWrite
    /\ LET elements == EnvGet(envs, name)
       IN IF elements.t # "List"
             THEN /\ Raise(stack, envs, NotAListMsg(name))
                  /\ Track(FALSE)
             ELSE \E r \in Idx(i) :
                    IF r.r = "Panic" THEN Abort /\ Track(FALSE)
                    ELSE IF r.v.n >= 0 /\ r.v.n <= Len(elements.l)
                            THEN /\ Len(elements.l) < MaxLen
                                 /\ Deliver(stack,
                                            SetChanged(envs, name, elements,
                                                       InsertAt(elements.l, r.v.n, IntV(v))),
                                            IntV(v))
                                 /\ TrackWith(FALSE, FALSE, TRUE, TRUE)
                            ELSE /\ Raise(stack, envs, IndexOutOfBoundsMsg)
                                 /\ Track(FALSE)
    /\ UNCHANGED <<depth, log>>

\* AstNode::ListRemove | AstNode::Remove
ListRemove(name, i) ==
    /\ mode = "exec"
    /\ ~Exceeded(depth)
    /\ CanWrite
    /\ LET elements == EnvGet(envs, name)
       IN IF elements.t # "List"
             THEN /\ Raise(stack, envs, NotAListMsg(name))
                  /\ Track(FALSE)
             ELSE \E r \in Idx(i) :
                    IF r.r = "Panic" THEN Abort /\ Track(FALSE)
                    ELSE IF r.v.n >= 0 /\ r.v.n < Len(elements.l)
                            THEN /\ Deliver(stack,
                                            SetChanged(envs, name, elements,
                                                       RemoveAt(elements.l, r.v.n)),
                                            elements.l[r.v.n + 1])
                                 /\ TrackWith(FALSE, FALSE, TRUE, TRUE)
                            ELSE /\ Raise(stack, envs, IndexOutOfBoundsMsg)
                                 /\ Track(FALSE)
    /\ UNCHANGED <<depth, log>>

\* AstNode::ListAssignment on an identifier
ListAssignment(name, i, v) ==
    /\ mode = "exec"
    /\ ~Exceeded(depth)
    /\ CanWrite
    /\ LET elements == EnvGet(envs, name)
       IN IF elements.t # "List"
             THEN /\ Raise(stack, envs, NotAListMsg(name))
                  /\ Track(FALSE)
             ELSE \E r \in Idx(i) :
                    IF r.r = "Panic" THEN Abort /\ Track(FALSE)
                    ELSE IF r.v.n >= 0 /\ r.v.n < Len(elements.l)
                            THEN /\ Deliver(stack,
                                            SetChanged(envs, name, elements,
                                                       [elements.l EXCEPT
                                                           ![r.v.n + 1] = IntV(v)]),
                                            IntV(v))
                                 /\ TrackWith(FALSE, FALSE, TRUE, TRUE)
                            ELSE /\ Raise(stack, envs, IndexOutOfBoundsMsg)
                                 /\ Track(FALSE)
    /\ UNCHANGED <<depth, log>>

\* the match of AstNode::ListAccess on a list value and an integer index
\* (the String arm is not modelled: no variable of the model holds a string
\* that is indexed)
Access(current_value, i) ==
    IF current_value.t # "List" THEN {Err(InvalidIndexAccessMsg)}
    ELSE UNION {IF r.r = "Panic" THEN {Panic}
                ELSE IF r.v.n < 0 THEN {Err(IndexBelowMsg)}
                ELSE IF r.v.n >= Len(current_value.l)
                        THEN {Err(IndexAboveMsg(i, Len(current_value.l)))}
                ELSE {Ok(Clone(current_value.l[r.v.n + 1]))} : r \in Idx(i)}

\* evaluate_node of Identifier(name) followed by the indices of path
RECURSIVE AccessPath(_, _)
AccessPath(name, path) ==
    IF path = <<>>
       THEN IF EnvGet(envs, name) = None THEN {Err(UndefinedMsg(name))}
            ELSE {Ok(EnvGet(envs, name))}
    ELSE UNION {IF r.r = "Ok" THEN Access(r.v, path[Len(path)]) ELSE {r} :
                    r \in AccessPath(name, Pop(path))}

\* what the step makes of an outcome
Outcome(r) ==
    CASE r.r = "Ok" -> Deliver(stack, envs, r.v)
      [] r.r = "Err" -> Raise(stack, envs, r.v.s)
      [] r.r = "Panic" -> Abort

\* AstNode::ListAccess(Identifier(name), index) with a literal index
ListAccess(name, i) ==
    /\ mode \in {"exec", "eval"}
    /\ ~Exceeded(depth)
    /\ \E r \in AccessPath(name, <<i>>) : Outcome(r)
    /\ UNCHANGED <<depth, log>>
    /\ Track(FALSE)

\* AstNode::ListAssignment whose target is a ListAccess: name[path][j] <- v,
\* path of one index (inner_list is the identifier) or of two (inner_list is
\* itself a ListAccess)
NestedListAssignment(name, path, j, v) ==
    /\ mode = "exec"
    /\ ~Exceeded(depth)
    /\ CanWrite
    /\ \E list_val \in AccessPath(name, Pop(path)), r \in Idx(path[Len(path)]),
          q \in Idx(j) :
          IF list_val.r # "Ok" THEN Outcome(list_val) /\ Track(FALSE)
          ELSE IF list_val.v.t # "List"
              THEN Raise(stack, envs, InvalidNestedMsg) /\ Track(FALSE)
          ELSE IF r.r = "Panic" THEN Abort /\ Track(FALSE)
          ELSE IF ~(r.v.n >= 0 /\ r.v.n < Len(list_val.v.l))
              THEN Raise(stack, envs, InvalidNestedMsg) /\ Track(FALSE)
          ELSE IF q.r = "Panic" THEN Abort /\ Track(FALSE)
          ELSE LET elements == list_val.v.l
                   inner == elements[r.v.n + 1]
               IN IF /\ inner.t = "List"
                     /\ q.v.n >= 0 /\ q.v.n < Len(inner.l)
                     /\ Len(path) = 1
                     THEN /\ Deliver(stack,
                                     SetChanged(envs, name, list_val.v,
                                         [elements EXCEPT ![r.v.n + 1] =
                                             ListV([inner.l EXCEPT ![q.v.n + 1] = IntV(v)],
                                                   Temp)]),
                                     IntV(v))
                          /\ TrackWith(FALSE, FALSE, TRUE, TRUE)
                     ELSE Raise(stack, envs, InvalidNestedMsg) /\ Track(FALSE)
    /\ UNCHANGED <<depth, log>>

(***************************************************************************)
(* AND and OR (the And and Or arms of AstNode::BinaryOp).                  *)
(***************************************************************************)
LogicOps == {"AND", "OR"}

\* the expressions of the model: a op b and (a op b) op c.  An operation
\* starts as a statement, as the operand of another node kind, or as the
\* left operand of an operation that is not itself an operand.
NestsOnce ==
    Top.k \in {"Bin", "Logic"}
    => (Top.ph = "left" /\ stack[Len(stack) - 1].k \notin {"Bin", "Logic"})

RightNotBoolMsg(op) == "Right operand of " \o op \o " must be boolean"

\* AstNode::BinaryOp(left_expr, And | Or, right_expr): evaluate left_expr
BeginLogical(op) ==
    /\ mode \in {"exec", "eval"}
    /\ ~Exceeded(depth)
    /\ CanPush /\ NestsOnce
    /\ Go(Append(stack, [k |-> "Logic", op |-> op, ph |-> "left", left |-> None]),
          envs, "eval", Unit)
    /\ UNCHANGED <<depth, log>>
    /\ Track(FALSE)

\* ... then `if let Value::Boolean(false) = left_val` for AND,
\* `if let Value::Boolean(true) = left_val` for OR: the result, or else the
\* right operand is evaluated.  The activation remembers left_val.
LogicalLeft ==
    /\ mode = "val"
    /\ Top.k = "Logic" /\ Top.ph = "left"
    /\ IF acc = BoolV(Top.op = "OR")
          THEN Deliver(Pop(stack), envs, acc)
          ELSE Go(SetTop(stack, [Top EXCEPT !.ph = "right", !.left = acc]),
                  envs, "eval", Unit)
    /\ UNCHANGED <<depth, log>>
    /\ Track(FALSE)

\* ... then `if let Value::Boolean(right_bool) = right_val`
LogicalRight ==
    /\ mode = "val"
    /\ Top.k = "Logic" /\ Top.ph = "right"
    /\ IF acc.t = "Bool"
          THEN Deliver(Pop(stack), envs, acc)
          ELSE Raise(Pop(stack), envs, RightNotBoolMsg(Top.op))
    /\ UNCHANGED <<depth, log>>
    /\ Track(FALSE)

(***************************************************************************)
(* evaluate_binary_op.  A Value::Float is held as the exact fraction n / d.*)
(***************************************************************************)
ModuloByZeroMsg == "Modulo by zero"
InvalidOperationMsg == "Invalid operation"

\* the exact results of the i64 subexpressions that the overflow test of
\* Add evaluates, && and || evaluating their right side only when needed
AddTerms(a, b) ==
    (IF a > 0 THEN {i64_MAX - a} ELSE {})
    \cup (IF ~(a > 0 /\ b > Term(i64_MAX - a)) /\ a < 0 THEN {i64_MIN - a} ELSE {})

AddOverflows(a, b) ==
    \/ a > 0 /\ b > Term(i64_MAX - a)
    \/ a < 0 /\ b < Term(i64_MIN - a)

SubTerms(a, b) ==
    (IF b > 0 THEN {i64_MIN + b} ELSE {})
    \cup (IF ~(b > 0 /\ a < Term(i64_MIN + b)) /\ b < 0 THEN {i64_MAX + b} ELSE {})

SubOverflows(a, b) ==
    \/ b > 0 /\ a < Term(i64_MIN + b)
    \/ b < 0 /\ a > Term(i64_MAX + b)

\* variant: one test for every combination of signs
MulOverflowsOneTest(a, b) == a > Term(TruncDiv(i64_MAX, b))

\* the test of Mul, for a # 0 and b # 0
MulOverflows(a, b) ==
    \/ a > 0 /\ b > 0 /\ a > Term(TruncDiv(i64_MAX, b))
    \/ a > 0 /\ b < 0 /\ b < Term(TruncDiv(i64_MIN, a))
    \/ a < 0 /\ b > 0 /\ a < Term(TruncDiv(i64_MIN, b))
    \/ a < 0 /\ b < 0 /\ a < Term(TruncDiv(i64_MAX, b))

\* the divisions that test evaluates, as <<dividend, divisor>>
MulDivisions(a, b) ==
    IF a = 0 \/ b = 0 THEN {}
    ELSE IF a > 0 /\ b > 0 THEN {<<i64_MAX, b>>}
    ELSE IF a > 0 /\ b < 0 THEN {<<i64_MIN, a>>}
    ELSE IF a < 0 /\ b > 0 THEN {<<i64_MIN, b>>}
    ELSE {<<i64_MAX, b>>}

MulTerms(a, b) == {TruncDiv(d[1], d[2]) : d \in MulDivisions(a, b)}

\* the subexpressions of the overflow test of op, exact
CheckTerms(op, a, b) ==
    CASE op = "Add" -> AddTerms(a, b)
      [] op = "Sub" -> SubTerms(a, b)
      [] op = "Mul" -> MulTerms(a, b)
      [] OTHER -> {}

\* `a as f64`, and the arithmetic of f64 on fractions
RECURSIVE Gcd(_, _)
Gcd(m, n) == IF n = 0 THEN Abs(m) ELSE Gcd(n, m % n)

Frac(n, d) ==
    LET g == Gcd(Abs(n), Abs(d))
        sgn == IF d < 0 THEN -1 ELSE 1
    IN FloatV((sgn * n) \div g, (sgn * d) \div g)

AsF64(v) == IF v.t = "Int" THEN FloatV(v.n, 1) ELSE v

FloatArith(op, x, y) ==
    CASE op = "Add" -> Frac(x.n * y.d + y.n * x.d, x.d * y.d)
      [] op = "Sub" -> Frac(x.n * y.d - y.n * x.d, x.d * y.d)
      [] op = "Mul" -> Frac(x.n * y.n, x.d * y.d)
      [] op = "Div" -> Frac(x.n * y.d, x.d * y.n)

\* ==, !=, <, <=, >, >= on two numbers given as the difference's sign
Compare(op, less, equal) ==
    CASE op = "Eq" -> equal
      [] op = "NotEq" -> ~equal
      [] op = "Lt" -> less
      [] op = "LtEq" -> less \/ equal
      [] op = "Gt" -> ~less /\ ~equal
      [] op = "GtEq" -> ~less

\* the strings of the model, in the order of String's Ord
StrOrder == <<"a", "aa", "ab", "b", "ba", "bb">>

StrRank(str) ==
    IF \E i \in DOMAIN StrOrder : StrOrder[i] = str
       THEN CHOOSE i \in DOMAIN StrOrder : StrOrder[i] = str
       ELSE 0

ArithOps == {"Add", "Sub", "Mul", "Div"}
CompareOps == {"Eq", "NotEq", "Lt", "LtEq", "Gt", "GtEq"}
BinaryOps == ArithOps \cup {"Mod"} \cup CompareOps

\* the Integer, Integer arms
IntegerOp(a, op, b) ==
    CASE op = "Add" -> IF AddOverflows(a, b)
                          THEN {Ok(FloatArith(op, FloatV(a, 1), FloatV(b, 1)))}
                          ELSE IntOp(a + b)
      [] op = "Sub" -> IF SubOverflows(a, b)
                          THEN {Ok(FloatArith(op, FloatV(a, 1), FloatV(b, 1)))}
                          ELSE IntOp(a - b)
      [] op = "Mul" -> IF a # 0 /\ b # 0
                          THEN IF MulOverflows(a, b)
                                  THEN {Ok(FloatArith(op, FloatV(a, 1), FloatV(b, 1)))}
                                  ELSE IntOp(a * b)
                          ELSE {Ok(IntV(0))}
      [] op = "Div" -> IF b = 0 THEN {Err(DivisionByZeroMsg)}
                       ELSE IF InRange(TruncDiv(a, b)) THEN {Ok(IntV(TruncDiv(a, b)))}
                       ELSE {Panic}
      [] op = "Mod" -> IF b = 0 THEN {Err(ModuloByZeroMsg)}
                       ELSE IF InRange(TruncDiv(a, b)) THEN {Ok(IntV(TruncRem(a, b)))}
                       ELSE {Panic}
      [] OTHER -> {Ok(BoolV(Compare(op, a < b, a = b)))}

\* the arms with a Float on one side or on both
FloatOp(x, op, y) ==
    IF op \in {"Add", "Sub", "Mul"} THEN {Ok(FloatArith(op, x, y))}
    ELSE IF op = "Div"
            THEN IF y.n = 0 THEN {Err(DivisionByZeroMsg)}
                 ELSE {Ok(FloatArith(op, x, y))}
    ELSE IF op \in CompareOps
            THEN {Ok(BoolV(Compare(op, x.n * y.d < y.n * x.d, x.n * y.d = y.n * x.d)))}
    ELSE {Err(InvalidOperationMsg)}

\* the String, String arms
StringOp(a, op, b) ==
    IF op = "Add" THEN {Ok(StrV(a \o b))}
    ELSE IF op \in CompareOps
            THEN {Ok(BoolV(Compare(op, StrRank(a) < StrRank(b), a = b)))}
    ELSE {Err(InvalidOperationMsg)}

\* the arms with Value::NaN on one side
NaNOp(op) ==
    IF op = "Eq" THEN {Ok(BoolV(FALSE))}
    ELSE IF op = "NotEq" THEN {Ok(BoolV(TRUE))}
    ELSE {Ok(NaN)}

\* the arms with Value::Null on one side
NullOp(left, op, right) ==
    IF left = Null /\ right = Null /\ op = "Eq" THEN {Ok(BoolV(TRUE))}
    ELSE {Ok(BoolV(FALSE))}

\* the arms after those
ValueOp(left, op, right) ==
    IF left.t = "Int" /\ right.t = "Int" THEN IntegerOp(left.n, op, right.n)
    ELSE IF left.t = "Bool" /\ right.t = "Bool" /\ op \in {"And", "Or", "Eq", "NotEq"}
       THEN {Ok(BoolV(CASE op = "And" -> left.b /\ right.b
                        [] op = "Or" -> left.b \/ right.b
                        [] op = "Eq" -> left.b = right.b
                        [] op = "NotEq" -> left.b # right.b))}
    ELSE IF left.t = "Str" /\ right.t = "Str" THEN StringOp(left.s, op, right.s)
    ELSE IF left.t \in {"Int", "Float"} /\ right.t \in {"Int", "Float"}
       THEN FloatOp(AsF64(left), op, AsF64(right))
    ELSE IF left.t = "List" /\ right.t = "List" /\ op = "Add"
       THEN {Ok(ListV(left.l \o right.l, Temp))}
    ELSE {Err(InvalidOperationMsg)}

\* variant: the Null arms come before the NaN arms
evaluate_binary_op_NullFirst(left, op, right) ==
    IF left = Null \/ right = Null THEN NullOp(left, op, right)
    ELSE IF left = NaN \/ right = NaN THEN NaNOp(op)
    ELSE ValueOp(left, op, right)

\* the set of outcomes evaluate_binary_op(left, op, right) can have: the
\* first arm that matches
evaluate_binary_op(left, op, right) ==
    IF left = NaN \/ right = NaN THEN NaNOp(op)
    ELSE IF left = Null \/ right = Null THEN NullOp(left, op, right)
    ELSE ValueOp(left, op, right)

\* AstNode::BinaryOp(left_expr, op, right_expr), op neither And nor Or:
\* evaluate left_expr
BeginBinary(op) ==
    /\ mode \in {"exec", "eval"}
    /\ ~Exceeded(depth)
    /\ CanPush /\ NestsOnce
    /\ Go(Append(stack, [k |-> "Bin", op |-> op, ph |-> "left", left |-> None]),
          envs, "eval", Unit)
    /\ UNCHANGED <<depth, log>>
    /\ Track(FALSE)

\* ... then evaluate right_expr
BinaryLeft ==
    /\ mode = "val"
    /\ Top.k = "Bin" /\ Top.ph = "left"
    /\ Go(SetTop(stack, [Top EXCEPT !.ph = "right", !.left = acc]), envs, "eval", Unit)
    /\ UNCHANGED <<depth, log>>
    /\ Track(FALSE)

\* ... then evaluate_binary_op(&left_val, op, &right_val)
BinaryRight ==
    /\ mode = "val"
    /\ Top.k = "Bin" /\ Top.ph = "right"
    /\ \E res \in evaluate_binary_op(Top.left, Top.op, acc) :
          CASE res.r = "Ok" -> Deliver(Pop(stack), envs, res.v)
            [] res.r = "Err" -> Raise(Pop(stack), envs, res.v.s)
            [] res.r = "Panic" -> Go(stack, envs, "abort", acc)
    /\ UNCHANGED <<depth, log>>
    /\ Track(FALSE)

(***************************************************************************)
(* Unary operators and ABS.                                                *)
(***************************************************************************)
\* if CURRENT_STACK_DEPTH > 0 { CURRENT_STACK_DEPTH -= 1 }
Decrement(d) == IF d > 0 THEN d - 1 ELSE d

InvalidUnaryMsg == "Invalid unary operation"
AbsOneArgumentMsg == "ABS requires one argument"
AbsNotNumericMsg == "ABS requires a numeric argument"

\* the set of outcomes evaluate_unary_op(op, val) can have; -n of i64
evaluate_unary_op(op, val) ==
    IF op = "Neg" /\ val.t = "Int" THEN IntOp(-val.n)
    ELSE IF op = "Neg" /\ val.t = "Float" THEN {Ok(FloatV(-val.n, val.d))}
    ELSE IF op = "Not" /\ val.t = "Bool" THEN {Ok(BoolV(~val.b))}
    ELSE {Err(InvalidUnaryMsg)}

\* the match of the "ABS" arm on its argument; i64::abs
abs(x) ==
    IF x.t = "Int" THEN IntOp(Abs(x.n))
    ELSE IF x.t = "Float" THEN {Ok(FloatV(Abs(x.n), x.d))}
    ELSE {Err(AbsNotNumericMsg)}

\* AstNode::UnaryOp(op, expr): evaluate expr
BeginUnary(op) ==
    /\ mode \in {"exec", "eval"}
    /\ ~Exceeded(depth)
    /\ CanPush
    /\ Go(Append(stack, [k |-> "Unary", op |-> op]), envs, "eval", Unit)
    /\ UNCHANGED <<depth, log>>
    /\ Track(FALSE)

\* ... then evaluate_unary_op(op, &val)
UnaryValue ==
    /\ mode = "val"
    /\ Top.k = "Unary"
    /\ \E res \in evaluate_unary_op(Top.op, acc) :
          CASE res.r = "Ok" -> Deliver(Pop(stack), envs, res.v)
            [] res.r = "Err" -> Raise(Pop(stack), envs, res.v.s)
            [] res.r = "Panic" -> Abort
    /\ UNCHANGED <<depth, log>>
    /\ Track(FALSE)

\* AstNode::ProcedureCall("ABS", args): the counter, the argument count,
\* then the argument
BeginAbs(nargs) ==
    /\ mode \in {"exec", "eval"}
    /\ ~Exceeded(depth)
    /\ CanPush
    /\ depth' = depth + 1
    /\ IF nargs # 1 THEN Raise(stack, envs, AbsOneArgumentMsg)
       ELSE Go(Append(stack, [k |-> "Abs"]), envs, "eval", Unit)
    /\ UNCHANGED log
    /\ Track(FALSE)

\* ... then the match on the argument, and the end of the ProcedureCall arm
AbsValue ==
    /\ mode = "val"
    /\ Top.k = "Abs"
    /\ \E res \in abs(acc) :
          CASE res.r = "Ok" -> Deliver(Pop(stack), envs, res.v) /\ depth' = Decrement(depth)
            [] res.r = "Err" -> Raise(Pop(stack), envs, res.v.s) /\ depth' = Decrement(depth)
            [] res.r = "Panic" -> Abort /\ depth' = depth
    /\ UNCHANGED log
    /\ Track(FALSE)

(***************************************************************************)
(* IF, REPEAT n TIMES, REPEAT UNTIL.                                       *)
(***************************************************************************)
\* AstNode::If: evaluate the condition
BeginIf ==
    /\ mode = "exec"
    /\ ~Exceeded(depth)
    /\ CanPush
    /\ Go(Append(stack, [k |-> "If", ph |-> "cond"]), envs, "eval", Unit)
    /\ UNCHANGED <<depth, log>>
    /\ Track(FALSE)

\* ... then the branch: hasBranch is FALSE for a false condition without ELSE
IfCond(hasBranch) ==
    /\ mode = "val"
    /\ Top.k = "If"
    /\ IF acc.t # "Bool"
          THEN Raise(stack, envs, CondNotBoolMsg)
          ELSE IF acc.b \/ hasBranch
                  THEN EnterBlock(depth, SetTop(stack, [k |-> "If", ph |-> "body"]),
                                  envs, stack, envs)
                  ELSE Deliver(Pop(stack), envs, Unit)
    /\ UNCHANGED <<depth, log>>
    /\ Track(FALSE)

\* the branch's statement list is exhausted
EndIf ==
    /\ mode = "exec"
    /\ Top.k = "If"
    /\ Deliver(Pop(stack), envs, acc)
    /\ UNCHANGED <<depth, log>>
    /\ Track(FALSE)

\* AstNode::RepeatTimes: evaluate the count
BeginRepeatTimes ==
    /\ mode = "exec"
    /\ ~Exceeded(depth)
    /\ CanPush
    /\ Go(Append(stack, [k |-> "Times", ph |-> "count", n |-> 0, cnt |-> 0,
                         runs |-> 0, src |-> ""]), envs, "eval", Unit)
    /\ UNCHANGED <<depth, log>>
    /\ Track(FALSE)

\* ... then for _ in 0..n.  n is what is left of the range; cnt and runs
\* record for the history the count and the executions of the body.
RepeatTimesCount ==
    /\ mode = "val"
    /\ Top.k = "Times"
    /\ IF acc.t # "Int"
          THEN Raise(stack, envs, CountNotIntMsg)
          ELSE IF acc.n > 0
                  THEN EnterBlock(depth,
                                  SetTop(stack, [Top EXCEPT !.ph = "body", !.n = acc.n,
                                                            !.cnt = acc.n, !.runs = 1]),
                                  envs, stack, envs)
                  ELSE Deliver(Pop(stack), envs, Unit)
    /\ UNCHANGED <<depth, log>>
    /\ Track(FALSE)

\* variant: the count expression is read again at the end of every iteration
EndRepeatTimesBodyReread ==
    /\ mode = "exec"
    /\ Top.k = "Times"
    /\ LET now == IF Top.src = "" THEN IntV(Top.cnt) ELSE EnvGet(envs, Top.src)
       IN IF now.t = "Int" /\ Top.runs < now.n
             THEN EnterBlock(depth, SetTop(stack, [Top EXCEPT !.n = @ - 1,
                                                              !.runs = @ + 1]),
                             envs, stack, envs)
             ELSE Deliver(Pop(stack), envs, Unit)
    /\ UNCHANGED <<depth, log>>
    /\ Track(FALSE)

\* the body's statement list is exhausted: the next iteration, or Ok(Unit)
EndRepeatTimesBody ==
    /\ mode = "exec"
    /\ Top.k = "Times"
    /\ IF Top.n > 1
          THEN EnterBlock(depth, SetTop(stack, [Top EXCEPT !.n = @ - 1,
                                                           !.runs = @ + 1]), envs,
                          stack, envs)
          ELSE Deliver(Pop(stack), envs, Unit)
    /\ UNCHANGED <<depth, log>>
    /\ Track(FALSE)

\* variant: the count goes on from the count of the enclosing loop
UntilIterateShared(f, base) ==
    LET outer == {i \in DOMAIN base : base[i].k = "Until"}
        before == IF outer = {} THEN 0
                  ELSE base[CHOOSE i \in outer : \A j \in outer : j <= i].n
    IN IF f.n + before + 1 > max_iterations
          THEN Raise(Append(base, f), envs, MaxIterationsMsg)
          ELSE EnterBlock(depth,
                          Append(base, [f EXCEPT !.ph = "body", !.n = @ + 1,
                                                 !.runs = @ + 1]),
                          envs, base, envs)

\* one turn of RepeatUntil's loop head: iterations += 1, the cap, the body.
\* f is the loop's activation; runs and conds count for the history what
\* the loop has done.
UntilIterate(f, base) ==
    IF f.n + 1 > max_iterations
       THEN Raise(Append(base, f), envs, MaxIterationsMsg)
       ELSE EnterBlock(depth,
                       Append(base, [f EXCEPT !.ph = "body", !.n = @ + 1,
                                              !.runs = @ + 1]),
                       envs, base, envs)

\* variant: the condition is evaluated before the first execution of the body
BeginRepeatUntilCondFirst ==
    /\ mode = "exec"
    /\ ~Exceeded(depth)
    /\ CanPush
    /\ Go(Append(stack, [k |-> "Until", ph |-> "cond", n |-> 0, runs |-> 0,
                         conds |-> 0, last |-> None]), envs, "eval", Unit)
    /\ UNCHANGED <<depth, log>>
    /\ Track(FALSE)

\* AstNode::RepeatUntil: iterations = 0, then the loop
BeginRepeatUntil ==
    /\ mode = "exec"
    /\ ~Exceeded(depth)
    /\ CanPush
    /\ UntilIterate([k |-> "Until", ph |-> "body", n |-> 0, runs |-> 0,
                     conds |-> 0, last |-> None], stack)
    /\ UNCHANGED <<depth, log>>
    /\ Track(FALSE)

\* the body's statement list is exhausted: the return_value test, then the
\* condition is evaluated
EndRepeatUntilBody ==
    /\ mode = "exec"
    /\ Top.k = "Until"
    /\ IF CurEnv.ret # None
          THEN Deliver(Pop(stack), envs, acc)
          ELSE Go(SetTop(stack, [Top EXCEPT !.ph = "cond"]), envs, "eval", Unit)
    /\ UNCHANGED <<depth, log>>
    /\ Track(FALSE)

\* ... then break on true, continue on false, fail on anything else
RepeatUntilCond ==
    /\ mode = "val"
    /\ Top.k = "Until"
    /\ LET f == [Top EXCEPT !.conds = @ + 1, !.last = acc]
       IN IF acc.t # "Bool"
             THEN Raise(SetTop(stack, f), envs, UntilNotBoolMsg)
             ELSE IF acc.b
                     THEN Deliver(Pop(stack), envs, Unit)
                     ELSE UntilIterate(f, Pop(stack))
    /\ UNCHANGED <<depth, log>>
    /\ Track(FALSE)

(***************************************************************************)
(* Procedure calls (the `_` arm of AstNode::ProcedureCall).                *)
(***************************************************************************)
\* evaluate_node(&body, local_env) and what the call makes of an immediate
\* failure: st has the call's activation on top, still in its "args" phase
StartBody(st, d) ==
    EnterBlock(d, SetTop(st, [st[Len(st)] EXCEPT !.ph = "body"]),
               Append(envs, NewEnv(st[Len(st)].loc)), st, envs)

\* variant: every parameter waits for an argument
ZipEveryParam(params, nargs) == Len(params)

\* params.iter().zip(args): the number of pairs
Zip(params, nargs) == Min(Len(params), nargs)

\* CURRENT_STACK_DEPTH += 1; get_procedure; new_with_parent; the first argument
\* of a call with nargs arguments to a procedure declared with params
CallProcedure(found, params, nargs) ==
    /\ mode \in {"exec", "eval"}
    /\ ~Exceeded(depth)
    /\ CanPush
    /\ depth' = depth + 1
    /\ LET zipped == Zip(params, nargs)
           f == [k |-> "Call", ph |-> "args", m |-> zipped, n |-> zipped,
                 loc |-> NoVars, rv |-> None, params |-> params, args |-> nargs]
       IN IF ~found
             THEN Raise(stack, envs, ProcNotFoundMsg)
             ELSE IF f.n > 0
                     THEN Go(Append(stack, f), envs, "eval", Unit)
                     ELSE StartBody(Append(stack, f), depth + 1)
    /\ UNCHANGED log
    /\ Track(FALSE)

CallEnter(found, nargs) == CallProcedure(found, Params, nargs)

\* local_env.set(param, arg_value), then the next argument or the body
CallArg ==
    /\ mode = "val"
    /\ Top.k = "Call"
    /\ LET i == Top.m - Top.n + 1
           f == [Top EXCEPT !.n = @ - 1,
                            !.loc[Top.params[i]] =
                                Move(acc, Slot(Len(envs) + 1, Top.params[i]))]
       IN IF f.n > 0
             THEN Go(SetTop(stack, f), envs, "eval", Unit)
             ELSE StartBody(SetTop(stack, f), depth)
    /\ UNCHANGED <<depth, log>>
    /\ Track(FALSE)

\* what a finished body makes the call yield: Ok(val), return_value first
BodyResult(env, val) == IF env.ret # None THEN env.ret ELSE val

\* the body's statement list is exhausted: Ok(val)
EndCallBody ==
    /\ mode = "exec"
    /\ Top.k = "Call"
    /\ Deliver(Pop(stack), MergeOutput(envs), BodyResult(CurEnv, acc))
    /\ depth' = Decrement(depth)
    /\ UNCHANGED log
    /\ Track(FALSE)

\* what Err("Return") makes the call yield
ReturnResult(env) == IF env.ret # None THEN env.ret ELSE Unit

\* the body ended with Err(e): the Return signal ends the call with the
\* stored value; any other error leaves the call at once
CallBodyErr ==
    /\ mode = "err"
    /\ Top.k = "Call" /\ Top.ph = "body"
    /\ IF acc = StrV(ReturnSignal)
          THEN /\ Deliver(Pop(stack), MergeOutput(envs), ReturnResult(CurEnv))
               /\ depth' = Decrement(depth)
          ELSE /\ Go(Pop(stack), DropEnv(envs), "err", acc)
               /\ depth' = depth
    /\ UNCHANGED log
    /\ Track(FALSE)

\* an argument failed: evaluate_node(arg, env)? leaves the call at once
CallArgErr ==
    /\ mode = "err"
    /\ Top.k = "Call" /\ Top.ph = "args"
    /\ Go(Pop(stack), envs, "err", acc)
    /\ UNCHANGED <<depth, log>>
    /\ Track(FALSE)

(***************************************************************************)
(* TRY / CATCH.                                                            *)
(***************************************************************************)
\* AstNode::TryCatch: try_env = new_with_parent(env); evaluate the try block
BeginTry(var) ==
    /\ mode = "exec"
    /\ ~Exceeded(depth)
    /\ CanPush
    /\ Go(Append(stack, [k |-> "Try", ph |-> "try", var |-> var, t0 |-> NextText]),
          Append(envs, NewEnv(NoVars)), "exec", Unit)
    /\ UNCHANGED <<depth, log>>
    /\ Track(FALSE)

\* the try block, or the catch block, ended with Ok(result)
EndTry ==
    /\ mode = "exec"
    /\ Top.k = "Try"
    /\ Deliver(Pop(stack), MergeOutput(envs), acc)
    /\ UNCHANGED <<depth, log>>
    /\ Track(FALSE)

\* which errors of the try block the Err(error) arm takes
Catches(msg) == TRUE

\* the catch environment: new_with_parent(env) with error_var set
CatchEnv(var, msg) ==
    IF var = "" THEN NewEnv(NoVars)
    ELSE NewEnv([NoVars EXCEPT ![var] = StrV(msg)])

\* the try block ended with Err(error): push the try output, bind the
\* message, evaluate the catch block
TryErr ==
    /\ mode = "err"
    /\ Top.k = "Try" /\ Top.ph = "try"
    /\ IF Catches(acc.s)
          THEN EnterBlock(depth,
                          SetTop(stack, [Top EXCEPT !.ph = "catch"]),
                          Append(MergeOutput(envs), CatchEnv(Top.var, acc.s)),
                          Pop(stack), MergeOutput(envs))
          ELSE Go(Pop(stack), DropEnv(envs), "err", acc)
    /\ UNCHANGED <<depth, log>>
    /\ Track(FALSE)

\* the catch block ended with Err: evaluate_node(catch_block, catch_env)?
CatchErr ==
    /\ mode = "err"
    /\ Top.k = "Try" /\ Top.ph = "catch"
    /\ Go(Pop(stack), DropEnv(envs), "err", acc)
    /\ UNCHANGED <<depth, log>>
    /\ Track(FALSE)

(***************************************************************************)
(* The ? operator in the other arms, and the end of the run.               *)
(***************************************************************************)
PropagateErr ==
    /\ mode = "err"
    /\ Top.k \in {"Display", "Assign", "Return", "If", "Times", "Until", "Logic",
                 "Bin", "Sort", "ForEach", "Unary", "Abs"}
    /\ Go(Pop(stack), envs, "err", acc)
    /\ UNCHANGED <<depth, log>>
    /\ Track(FALSE)

\* AstNode::Program ended with Ok: run returns the root output
EndProgram ==
    /\ mode = "exec"
    /\ Top.k = "Program"
    /\ Go(stack, envs, "done", acc)
    /\ UNCHANGED <<depth, log>>
    /\ Track(FALSE)

\* AstNode::Program ended with Err: run returns the error
FailProgram ==
    /\ mode = "err"
    /\ Top.k = "Program"
    /\ Go(stack, envs, "fail", acc)
    /\ UNCHANGED <<depth, log>>
    /\ Track(FALSE)

(***************************************************************************)
(* Specifications.  Each runs the same machine on the programs built from  *)
(* one family of node kinds.                                               *)
(***************************************************************************)
\* the end of the run and the ? operator: part of every family
Common ==
    \/ PropagateErr
    \/ EndProgram
    \/ FailProgram

\* expressions that fail
Failures == \E msg \in ErrMsgs : EvalFail(msg)

Calls ==
    \/ StackOverflow
    \/ \E found \in BOOLEAN, nargs \in ArgCounts : CallEnter(found, nargs)
    \/ CallArg
    \/ EndCallBody
    \/ CallBodyErr
    \/ CallArgErr

Returns ==
    \/ BeginReturn
    \/ ReturnValue

TryCatch ==
    \/ \E var \in CatchVars : BeginTry(var)
    \/ EndTry
    \/ TryErr
    \/ CatchErr

Displays ==
    \/ \E inline \in BOOLEAN : BeginDisplay(inline)
    \/ DisplayValue
    \/ \E name \in AssignNames : BeginAssignment(name, TRUE)
    \/ AssignmentValue

\* output, calls, RETURN and TRY/CATCH
Next ==
    \/ Common
    \/ Failures
    \/ \E v \in {IntV(1), Unit} : EvalAtom(v)
    \/ Displays
    \/ Calls
    \/ Returns
    \/ TryCatch

Spec == Init /\ [][Next]_vars

Loops ==
    \/ BeginRepeatUntil
    \/ EndRepeatUntilBody
    \/ RepeatUntilCond
    \/ BeginRepeatTimes
    \/ RepeatTimesCount
    \/ EndRepeatTimesBody
    \/ BeginIf
    \/ \E hasBranch \in BOOLEAN : IfCond(hasBranch)
    \/ EndIf

Lists ==
    \/ \E l \in {<<IntV(1)>>} : EvalList(l)
    \/ \E name \in ListNames : EvalIdentifier(name)
    \/ \E name \in ListNames : BeginAssignment(name, FALSE)
    \/ AssignmentValue
    \/ \E name \in ListNames, v \in ElemVals : ListAppend(name, v)
    \/ \E name \in ListNames, i \in Indices, v \in ElemVals : ListInsert(name, i, v)
    \/ \E name \in ListNames, i \in Indices : ListRemove(name, i)
    \/ \E name \in ListNames, i \in Indices, v \in ElemVals : ListAssignment(name, i, v)

\* calls and TRY/CATCH, nested up to and over the depth limit
NextDepth ==
    \/ Common
    \/ Failures
    \/ \E v \in {IntV(1), Unit} : EvalAtom(v)
    \/ Calls
    \/ Returns
    \/ TryCatch

\* the evaluator runs on: a step that can be taken is taken
InitDepth == InitWatching({"deep"})

SpecDepth == InitDepth /\ [][NextDepth]_vars /\ WF_vars(NextDepth)

\* loops and conditionals, in procedures and TRY blocks too
NextLoop ==
    \/ Common
    \/ Failures
    \/ \E v \in {BoolV(TRUE), BoolV(FALSE), IntV(2)} : EvalAtom(v)
    \/ Loops
    \/ Calls
    \/ Returns
    \/ TryCatch

InitLoop == InitWatching({})

SpecLoop == InitLoop /\ [][NextLoop]_vars

Variables ==
    \/ \E name \in AssignNames : EvalIdentifier(name)
    \/ \E name \in AssignNames : BeginAssignment(name, FALSE)
    \/ AssignmentValue

\* variables in the scopes that calls and TRY/CATCH open
NextEnv ==
    \/ Common
    \/ \E v \in {IntV(1), IntV(2)} : EvalAtom(v)
    \/ Variables
    \/ Calls
    \/ TryCatch

InitEnv == InitWatching({})

SpecEnv == InitEnv /\ [][NextEnv]_vars

\* list variables and calls
NextList ==
    \/ Common
    \/ Failures
    \/ Lists
    \/ Calls

InitList == InitWatching({"copied", "changed"})

SpecList == InitList /\ [][NextList]_vars

Repeats ==
    \/ BeginRepeatTimes
    \/ RepeatTimesCount
    \/ EndRepeatTimesBody

Counts == {IntV(-1), IntV(0), IntV(1), IntV(2), BoolV(TRUE)}

\* REPEAT n TIMES over integer variables, with failing expressions and RETURN
NextTimes ==
    \/ Common
    \/ Failures
    \/ \E v \in Counts : EvalAtom(v)
    \/ Variables
    \/ Repeats
    \/ Returns

InitTimes == InitWatching({})

SpecTimes == InitTimes /\ [][NextTimes]_vars

Logicals ==
    \/ \E op \in LogicOps : BeginLogical(op)
    \/ LogicalLeft
    \/ LogicalRight

Operands == {BoolV(TRUE), BoolV(FALSE), IntV(1), StrV("s")}

\* AND and OR over literals and failing expressions, as statements and as
\* the conditions of IF
NextLogic ==
    \/ Common
    \/ Failures
    \/ \E v \in Operands : EvalAtom(v)
    \/ Logicals
    \/ BeginIf
    \/ \E hasBranch \in BOOLEAN : IfCond(hasBranch)
    \/ EndIf

InitLogic == InitWatching({})

SpecLogic == InitLogic /\ [][NextLogic]_vars

Binaries ==
    \/ \E op \in BinaryOps : BeginBinary(op)
    \/ BinaryLeft
    \/ BinaryRight

\* the literals: every i64, two floats, and a value of every other kind
Literals ==
    {IntV(i) : i \in i64_MIN .. i64_MAX}
    \cup {FloatV(0, 1), FloatV(5, 2), BoolV(TRUE), BoolV(FALSE), StrV("a"), StrV("b"),
          Null, NaN, Unit, ListV(<<>>, Temp), ListV(<<IntV(1)>>, Temp)}

\* binary operations on literals: a op b and (a op b) op c
NextArith ==
    \/ Common
    \/ \E v \in Literals : EvalAtom(v)
    \/ Binaries

InitArith == InitWatching({})

SpecArith == InitArith /\ [][NextArith]_vars

\* a value of every kind
Kinds ==
    {IntV(1), FloatV(5, 2), BoolV(TRUE), BoolV(FALSE), StrV("a"), Null, NaN, Unit,
     ListV(<<IntV(1)>>, Temp)}

\* every binary operator, AND and OR included, on values of every kind
NextNaN ==
    \/ Common
    \/ \E v \in Kinds : EvalAtom(v)
    \/ Binaries
    \/ Logicals

InitNaN == InitWatching({})

SpecNaN == InitNaN /\ [][NextNaN]_vars

\* values to display: one of every kind, and flat, empty and nested lists
Shown ==
    {IntV(0), IntV(7), IntV(-42), IntV(120), BoolV(TRUE), BoolV(FALSE), StrV(""),
     StrV("Hello"), Null, NaN, Unit}

ShownLists ==
    {<<>>, <<IntV(1)>>, <<IntV(1), IntV(2), IntV(3)>>,
     <<StrV("a"), BoolV(FALSE), Null, NaN>>,
     <<ListV(<<>>, Temp), ListV(<<IntV(1), ListV(<<IntV(-2), IntV(3)>>, Temp)>>, Temp)>>,
     <<Unit, IntV(10)>>}

\* DISPLAY and DISPLAYINLINE of literals and of failing expressions
NextShow ==
    \/ Common
    \/ Failures
    \/ \E v \in Shown : EvalAtom(v)
    \/ \E l \in ShownLists : EvalList(l)
    \/ \E inline \in BOOLEAN : BeginDisplay(inline)
    \/ DisplayValue

InitShow == InitWatching({"text"})

SpecShow == InitShow /\ [][NextShow]_vars

(***************************************************************************)
(* Indexing: list literals, flat and nested, bound to a variable, then     *)
(* read, changed, extended and shortened through every kind of index.      *)
(***************************************************************************)
AnyIndex == {i64_MIN, -1, 0, 1, 2, 3}
Flat == {<<IntV(1)>>, <<IntV(1), IntV(2)>>}
Nested == {<<ListV(<<IntV(1), IntV(2)>>, Temp), IntV(2)>>,
           <<ListV(<<ListV(<<IntV(1)>>, Temp)>>, Temp)>>}
Paths == {<<i>> : i \in Indices} \cup {<<i, j>> : i, j \in Indices}
IndexNames == {"x"}

Indexing ==
    \/ \E l \in Flat \cup Nested : EvalList(l)
    \/ \E name \in IndexNames : BeginAssignment(name, FALSE)
    \/ AssignmentValue
    \/ \E name \in IndexNames, i \in AnyIndex : ListAccess(name, i)
    \/ \E name \in IndexNames, v \in ElemVals : ListAppend(name, v)
    \/ \E name \in IndexNames, i \in AnyIndex, v \in ElemVals : ListInsert(name, i, v)
    \/ \E name \in IndexNames, i \in AnyIndex : ListRemove(name, i)
    \/ \E name \in IndexNames, i \in AnyIndex, v \in ElemVals : ListAssignment(name, i, v)
    \/ \E name \in IndexNames, path \in Paths, j \in Indices, v \in ElemVals :
          NestedListAssignment(name, path, j, v)

NextIndex ==
    \/ Common
    \/ Failures
    \/ Indexing

InitIndex == InitWatching({})

SpecIndex == InitIndex /\ [][NextIndex]_vars

(***************************************************************************)
(* The lexer (src/src/lexer.rs).  A source text is a sequence of           *)
(* characters; Lexer::tokenize runs before the evaluator, in the mode      *)
(* "lex", with its fields in the one activation of `stack`.  The alphabet  *)
(* has two digits, the point, a letter, a character that starts no token,  *)
(* the space, the quote, the slash and the newline; keywords, the r" and   *)
(* f" strings and the backslash are outside it.                            *)
(***************************************************************************)
MaxSource == 3      \* characters of a source text
Alphabet == {"7", "8", ".", "a", "#", " ", "\"", "/", "\n"}
Sources == UNION {[1..n -> Alphabet] : n \in 0..MaxSource}

is_digit(c) == c \in {"7", "8"}
is_alphanumeric(c) == c = "a" \/ is_digit(c)
DigitValue(c) == IF c = "7" THEN 7 ELSE 8

\* the characters of input after the first from, up to the first to
RECURSIVE Text(_, _, _)
Text(input, from, to) ==
    IF from >= to THEN "" ELSE input[from + 1] \o Text(input, from + 1, to)

\* the position after the characters that `while let Some(&c) = peek()`
\* takes into a number
RECURSIVE NumberEnd(_, _, _)
NumberEnd(input, pos, is_float) ==
    IF pos = Len(input) THEN [pos |-> pos, is_float |-> is_float]
    ELSE IF input[pos + 1] = "." /\ ~is_float THEN NumberEnd(input, pos + 1, TRUE)
    ELSE IF is_digit(input[pos + 1]) THEN NumberEnd(input, pos + 1, is_float)
    ELSE [pos |-> pos, is_float |-> is_float]

\* the position after the characters taken into an identifier
RECURSIVE IdentifierEnd(_, _)
IdentifierEnd(input, pos) ==
    IF pos < Len(input) /\ (is_alphanumeric(input[pos + 1]) \/ input[pos + 1] = "_")
       THEN IdentifierEnd(input, pos + 1) ELSE pos

\* the position after the next occurrence of c, or the end of the input
RECURSIVE After1(_, _, _)
After1(input, pos, c) ==
    IF pos = Len(input) THEN pos
    ELSE IF input[pos + 1] = c THEN pos + 1 ELSE After1(input, pos + 1, c)

\* the position of the next three quotes in a row, or the end of the input
RECURSIVE TripleQuote(_, _)
TripleQuote(input, pos) ==
    IF pos = Len(input) THEN pos
    ELSE IF /\ pos + 3 <= Len(input)
            /\ input[pos + 1] = "\"" /\ input[pos + 2] = "\"" /\ input[pos + 3] = "\""
            THEN pos
    ELSE TripleQuote(input, pos + 1)

\* the value of a digit string
RECURSIVE DigitsValue(_, _, _)
DigitsValue(input, from, to) ==
    IF from >= to THEN 0
    ELSE 10 * DigitsValue(input, from, to - 1) + DigitValue(input[to])

\* number.parse::<i64>()
ParseInteger(input, from, to) ==
    IF DigitsValue(input, from, to) <= i64_MAX
       THEN Ok(IntV(DigitsValue(input, from, to)))
       ELSE Err("number too large to fit in target type")

Token(kind, text) == [k |-> kind, s |-> text]
\* a token, the offset it starts at (history) and the position after it
Lexed(from, token, pos) == [r |-> "Some", tok |-> token, from |-> from, pos |-> pos]

\* Lexer::next_token at the position pos of input
RECURSIVE next_token(_, _)
next_token(input, pos) ==
    IF pos = Len(input) THEN [r |-> "None", pos |-> pos]
    ELSE LET next_char == input[pos + 1]
             peek == IF pos + 1 < Len(input) THEN input[pos + 2] ELSE ""
         IN CASE next_char = "/" ->
                   IF peek = "/" THEN next_token(input, After1(input, pos + 2, "\n"))
                   ELSE Lexed(pos, Token("Divide", ""), pos + 1)
              [] next_char = "\n" -> Lexed(pos, Token("Newline", ""), pos + 1)
              [] next_char = " " -> next_token(input, pos + 1)
              [] next_char = "\"" ->
                   IF peek = "\"" /\ pos + 2 < Len(input) /\ input[pos + 3] = "\""
                      THEN LET end == TripleQuote(input, pos + 3)
                           IN Lexed(pos, Token("MultilineString", Text(input, pos + 3, end)),
                                    IF end = Len(input) THEN end ELSE end + 3)
                      ELSE LET end == After1(input, pos + 1, "\"")
                           IN Lexed(pos, Token("String",
                                          Text(input, pos + 1,
                                               IF input[end] = "\"" /\ end > pos + 1
                                                  THEN end - 1 ELSE end)),
                                    end)
              [] is_digit(next_char) ->
                   LET end == NumberEnd(input, pos + 1, FALSE)
                   IN IF end.is_float
                         THEN Lexed(pos, Token("Float", Text(input, pos, end.pos)), end.pos)
                         ELSE LET n == ParseInteger(input, pos, end.pos)
                              IN IF n.r = "Ok"                \* unwrap()
                                    THEN Lexed(pos, [k |-> "Integer", n |-> n.v.n], end.pos)
                                    ELSE Panic
              [] next_char = "a" ->
                   LET end == IdentifierEnd(input, pos + 1)
                   IN Lexed(pos, Token("Identifier", Text(input, pos, end)), end)
              [] OTHER -> Lexed(pos, Token("Identifier", next_char), pos + 1)

\* Lexer::tokenize: one turn of `while let Some(token) = self.next_token()`
Tokenize ==
    /\ mode = "lex"
    /\ LET r == next_token(Top.input, Top.pos)
       IN CASE r.r = "Some" ->
                 Go(SetTop(stack, [Top EXCEPT !.pos = r.pos,
                                               !.tokens = Append(@, r.tok),
                                               !.starts = Append(@, r.from)]),
                    envs, "lex", acc)
            [] r.r = "None" ->
                 Go(SetTop(stack, [Top EXCEPT !.pos = r.pos]), envs, "lexed", acc)
            [] r.r = "Panic" -> Go(stack, envs, "abort", acc)
    /\ UNCHANGED <<depth, log>>
    /\ Track(FALSE)

NextLex == Tokenize

\* Lexer::new(input), for every source text
InitLex ==
    /\ \E input \in Sources :
          stack = <<[k |-> "Lexer", input |-> input, pos |-> 0, tokens |-> <<>>,
                     starts |-> <<>>]>>
    /\ envs = <<NewEnv(NoVars)>>
    /\ mode = "lex"
    /\ acc = Unit
    /\ depth = 0
    /\ log = <<>>
    /\ hist = [watch |-> {}, raised |-> FALSE, echoed |-> FALSE, deep |-> FALSE,
               copied |-> FALSE, changed |-> FALSE, writes |-> 0, text |-> ""]

SpecLex == InitLex /\ [][NextLex]_vars

(***************************************************************************)
(* The parser (src/src/parser.rs) on the token sequences of source texts   *)
(* made of a letter, the slash, the space and the newline: statements      *)
(* that are one identifier, separated or not by newlines, and the slash,   *)
(* which starts no statement.  parse_with_source runs after the lexer, in  *)
(* the mode "parse".                                                       *)
(***************************************************************************)
ParseAlphabet == {"a", "/", " ", "\n"}
ParseSources == UNION {[1..n -> ParseAlphabet] : n \in 0..MaxSource}
UnexpectedTokenMsg == "Unexpected token in statement"

\* SourceTracker::get_location: the scan of the characters before pos
RECURSIVE Locate(_, _, _, _, _)
Locate(source, pos, i, line, col) ==
    IF i >= Len(source) \/ i >= pos THEN <<line, col>>
    ELSE IF source[i + 1] = "\n" THEN Locate(source, pos, i + 1, line + 1, 1)
    ELSE Locate(source, pos, i + 1, line, col + 1)

get_location(source, pos) == Locate(source, pos, 0, 1, 1)

\* Parser::create_error(message, self.current) with a source tracker:
\* PseudoError::with_location(message, line, column, ..)
create_error(source, message, current) ==
    [t |-> "ParseError", s |-> message, at |-> get_location(source, current)]

\* Parser::parse_statement at the token index current: the index after the
\* statement, or the index the error is created with
RECURSIVE parse_statement(_, _)
parse_statement(tokens, current) ==
    IF current >= Len(tokens) THEN Ok(IntV(current))
    ELSE CASE tokens[current + 1].k = "Identifier" -> Ok(IntV(current + 1))
           [] tokens[current + 1].k = "Newline" -> parse_statement(tokens, current + 1)
           [] OTHER -> [r |-> "Err", v |-> StrV(UnexpectedTokenMsg), at |-> current]

\* parse_with_source(tokens, source): Parser::new_with_source
BeginParse ==
    /\ mode = "lexed"
    /\ Go(<<[k |-> "Parser", source |-> Top.input, tokens |-> Top.tokens,
             starts |-> Top.starts, current |-> 0, statements |-> 0]>>,
          envs, "parse", acc)
    /\ UNCHANGED <<depth, log>>
    /\ Track(FALSE)

\* Parser::parse_program: one turn of `while self.peek().is_some()`, or its end
ParseProgram ==
    /\ mode = "parse"
    /\ IF Top.current >= Len(Top.tokens)
          THEN Go(stack, envs, "parsed", acc)
          ELSE LET r == parse_statement(Top.tokens, Top.current)
               IN IF r.r = "Ok"
                     THEN Go(SetTop(stack, [Top EXCEPT !.current = r.v.n,
                                                        !.statements = @ + 1]),
                             envs, "parse", acc)
                     ELSE Go(stack, envs, "parse_error",
                             create_error(Top.source, r.v.s, r.at))
    /\ UNCHANGED <<depth, log>>
    /\ Track(FALSE)

NextParse ==
    \/ Tokenize
    \/ BeginParse
    \/ ParseProgram

\* Lexer::new(input), for every source text of the parser's alphabet
InitParse ==
    /\ \E input \in ParseSources :
          stack = <<[k |-> "Lexer", input |-> input, pos |-> 0, tokens |-> <<>>,
                     starts |-> <<>>]>>
    /\ envs = <<NewEnv(NoVars)>>
    /\ mode = "lex"
    /\ acc = Unit
    /\ depth = 0
    /\ log = <<>>
    /\ hist = [watch |-> {}, raised |-> FALSE, echoed |-> FALSE, deep |-> FALSE,
               copied |-> FALSE, changed |-> FALSE, writes |-> 0, text |-> ""]

SpecParse == InitParse /\ [][NextParse]_vars

(***************************************************************************)
(* SUBSTRING on a string literal (its characters) and two integer          *)
(* literals, under TRY / CATCH or not.                                     *)
(***************************************************************************)
InvalidSubstringMsg == "Invalid substring indices"
Characters == UNION {[1..n -> {"a", "b"}] : n \in 0..MaxLen}

\* AstNode::Substring
Substring(s, start, end) ==
    /\ mode \in {"exec", "eval"}
    /\ ~Exceeded(depth)
    /\ \E start_idx \in Idx(start), end_idx \in Idx(end) :
          IF start_idx.r = "Panic" \/ end_idx.r = "Panic" THEN Abort
          ELSE IF /\ start_idx.v.n >= 0
                  /\ end_idx.v.n >= start_idx.v.n
                  /\ end_idx.v.n <= Len(s)
                  THEN IF end_idx.v.n < Len(s)      \* s[start_idx..=end_idx]
                          THEN Deliver(stack, envs,
                                       StrV(Text(s, start_idx.v.n, end_idx.v.n + 1)))
                          ELSE Abort
          ELSE Raise(stack, envs, InvalidSubstringMsg)
    /\ UNCHANGED <<depth, log>>
    /\ Track(FALSE)

NextSubstring ==
    \/ EndProgram
    \/ FailProgram
    \/ TryCatch
    \/ \E s \in Characters, start \in AnyIndex, end \in AnyIndex : Substring(s, start, end)

InitSubstring == InitWatching({})

SpecSubstring == InitSubstring /\ [][NextSubstring]_vars

(***************************************************************************)
(* SORT.  The closure given to sort_by orders two integers, two floats,    *)
(* an integer and a float, and two strings, and calls every other pair     *)
(* equal.  slice::sort_by is stable and sorts a slice of up to 20 elements *)
(* by insertion, the elements taken from left to right; the lists of the   *)
(* model are that short.                                                   *)
(***************************************************************************)
SortNotAListMsg == "SORT requires a list as an argument"

\* the closure of sort_by: -1 Less, 0 Equal, 1 Greater
SortCompare(a, b) ==
    LET Sign(x) == IF x < 0 THEN -1 ELSE IF x > 0 THEN 1 ELSE 0
    IN CASE a.t \in {"Int", "Float"} /\ b.t \in {"Int", "Float"} ->
               Sign(AsF64(a).n * AsF64(b).d - AsF64(b).n * AsF64(a).d)
         [] a.t = "Str" /\ b.t = "Str" -> Sign(StrRank(a.s) - StrRank(b.s))
         [] OTHER -> 0

RECURSIVE InsertStable(_, _)
\* variant: v is put before the elements equal to it
InsertBeforeEqual(l, v) ==
    IF l = <<>> \/ SortCompare(l[Len(l)], v) < 0 THEN Append(l, v)
    ELSE Append(InsertStable(Pop(l), v), l[Len(l)])

\* v put into the sorted l after the last element that is not greater
InsertStable(l, v) ==
    IF l = <<>> \/ SortCompare(l[Len(l)], v) <= 0 THEN Append(l, v)
    ELSE Append(InsertStable(Pop(l), v), l[Len(l)])

RECURSIVE StableSort(_)
StableSort(l) == IF l = <<>> THEN <<>> ELSE InsertStable(StableSort(Pop(l)), l[Len(l)])

\* elements.sort_by(..)
sort_by(l) == StableSort(l)

\* AstNode::Sort: the list expression is evaluated next
BeginSort ==
    /\ mode \in {"exec", "eval"}
    /\ ~Exceeded(depth)
    /\ CanPush
    /\ Go(Append(stack, [k |-> "Sort"]), envs, "eval", Unit)
    /\ UNCHANGED <<depth, log>>
    /\ Track(FALSE)

\* AstNode::Sort: the value of the list expression is sorted
SortValue ==
    /\ mode = "val"
    /\ Top.k = "Sort"
    /\ IF acc.t # "List" THEN Raise(Pop(stack), envs, SortNotAListMsg)
       ELSE Deliver(Pop(stack), envs, ListV(sort_by(acc.l), Temp))
    /\ UNCHANGED <<depth, log>>
    /\ Track(FALSE)

SortLists ==
    {<<>>, <<IntV(2), IntV(1)>>, <<IntV(3), IntV(1), IntV(2)>>,
     <<IntV(2), FloatV(3, 2), IntV(1)>>, <<StrV("b"), StrV("a")>>,
     <<StrV("b"), IntV(2), StrV("a")>>, <<IntV(3), StrV("a"), IntV(1)>>,
     <<StrV("b"), StrV("a"), IntV(1)>>, <<BoolV(TRUE), IntV(2), BoolV(FALSE)>>}

NextSort ==
    \/ Common
    \/ \E l \in SortLists : EvalList(l)
    \/ EvalAtom(IntV(1))
    \/ \E name \in IndexNames : EvalIdentifier(name)
    \/ \E name \in IndexNames : BeginAssignment(name, FALSE)
    \/ AssignmentValue
    \/ BeginSort
    \/ SortValue

InitSort == InitWatching({})

SpecSort == InitSort /\ [][NextSort]_vars

(***************************************************************************)
(* FOR EACH over a list.                                                   *)
(***************************************************************************)
ForEachNotListMsg == "FOR EACH requires list or string"

\* AstNode::ForEach: list_val = evaluate_node(list, env)?
BeginForEach(var) ==
    /\ mode = "exec"
    /\ ~Exceeded(depth)
    /\ CanPush
    /\ Go(Append(stack, [k |-> "ForEach", ph |-> "list", var |-> var,
                         rest |-> <<>>]), envs, "eval", Unit)
    /\ UNCHANGED <<depth, log>>
    /\ Track(FALSE)

\* one turn of `for element in elements`: env.borrow_mut().set(var_name,
\* element), then the body in the same env
ForEachElement(elements) ==
    LET bound == EnvSet(envs, Top.var, Head(elements))
    IN EnterBlock(depth,
                  SetTop(stack, [Top EXCEPT !.ph = "body", !.rest = Tail(elements)]),
                  bound, stack, bound)

\* match list_val; the Value::String arm (one turn per character) is left
\* to values that are not strings
ForEachList ==
    /\ mode = "val"
    /\ Top.k = "ForEach" /\ Top.ph = "list"
    /\ acc.t # "Str"
    /\ IF acc.t # "List" THEN Raise(stack, envs, ForEachNotListMsg)
       ELSE IF acc.l = <<>> THEN Deliver(Pop(stack), envs, Unit)
       ELSE ForEachElement(acc.l)
    /\ UNCHANGED <<depth, log>>
    /\ Track(FALSE)

\* the body ended with Ok(result): the next element, or Ok(result)
EndForEachBody ==
    /\ mode = "exec"
    /\ Top.k = "ForEach" /\ Top.ph = "body"
    /\ IF Top.rest # <<>> THEN ForEachElement(Top.rest)
       ELSE Deliver(Pop(stack), envs, acc)
    /\ UNCHANGED <<depth, log>>
    /\ Track(FALSE)

(***************************************************************************)
(* Assignments and APPEND in the bodies of IF, REPEAT, FOR EACH, TRY/CATCH *)
(* and procedures.                                                         *)
(***************************************************************************)
ScopeNames == {"x"}
LoopVars == {"y"}
ScopeLists == {<<IntV(1)>>}

\* IF, REPEAT, FOR EACH and TRY/CATCH are nested up to MaxNesting deep
Shallow == Len(stack) <= MaxNesting

NextScope ==
    \/ Common
    \/ EvalAtom(BoolV(TRUE))
    \/ \E l \in ScopeLists : EvalList(l)
    \/ \E name \in ScopeNames : BeginAssignment(name, FALSE)
    \/ AssignmentValue
    \/ \E name \in ScopeNames : ListAppend(name, 1)
    \/ Shallow /\ BeginIf
    \/ \E hasBranch \in BOOLEAN : IfCond(hasBranch)
    \/ EndIf
    \/ Shallow /\ BeginRepeatUntil
    \/ EndRepeatUntilBody
    \/ RepeatUntilCond
    \/ Shallow /\ \E var \in LoopVars : BeginForEach(var)
    \/ ForEachList
    \/ EndForEachBody
    \/ Shallow /\ BeginTry("e")
    \/ EndTry
    \/ TryErr
    \/ CatchErr

InitScope == InitWatching({})

SpecScope == InitScope /\ [][NextScope]_vars

(***************************************************************************)
(* Assignments and list operations in the body of a procedure, on names    *)
(* that the caller binds too.                                              *)
(***************************************************************************)
CalleeNames == {"x"}
CalleeLists == {<<IntV(1)>>}

NextCallee ==
    \/ Common
    \/ EvalAtom(IntV(2))
    \/ \E l \in CalleeLists : EvalList(l)
    \/ \E name \in CalleeNames : EvalIdentifier(name)
    \/ \E name \in CalleeNames : BeginAssignment(name, FALSE)
    \/ AssignmentValue
    \/ \E name \in CalleeNames : ListAppend(name, 2)
    \/ \E name \in CalleeNames : ListInsert(name, 1, 2)
    \/ \E name \in CalleeNames : ListRemove(name, 1)
    \/ \E name \in CalleeNames : ListAssignment(name, 1, 2)
    \/ Calls

InitCallee == InitWatching({})

SpecCallee == InitCallee /\ [][NextCallee]_vars

(***************************************************************************)
(* Division, MOD, subtraction, unary minus and ABS on every integer of the *)
(* width, and on a float and a boolean.                                    *)
(***************************************************************************)
UnaryOperands == {IntV(i) : i \in i64_MIN .. i64_MAX} \cup {FloatV(-5, 2), BoolV(TRUE)}

NextUnary ==
    \/ Common
    \/ \E v \in UnaryOperands : EvalAtom(v)
    \/ \E op \in {"Div", "Mod", "Sub"} : BeginBinary(op)
    \/ BinaryLeft
    \/ BinaryRight
    \/ \E op \in {"Neg", "Not"} : BeginUnary(op)
    \/ UnaryValue
    \/ \E nargs \in 0 .. 2 : BeginAbs(nargs)
    \/ AbsValue

InitUnary == InitWatching({})

SpecUnary == InitUnary /\ [][NextUnary]_vars

(***************************************************************************)
(* Calls of procedures with zero, one and two parameters, with zero to two *)
(* arguments that are literals or variables of the caller.                 *)
(***************************************************************************)
ParamLists == {<<>>, <<"x">>, <<"x", "y">>}
CallNames == {"x", "y"}

NextCall ==
    \/ Common
    \/ \E v \in {IntV(1), IntV(2)} : EvalAtom(v)
    \/ \E name \in CallNames : EvalIdentifier(name)
    \/ \E name \in CallNames : BeginAssignment(name, FALSE)
    \/ AssignmentValue
    \/ StackOverflow
    \/ \E params \in ParamLists, nargs \in 0..2 : CallProcedure(TRUE, params, nargs)
    \/ CallArg
    \/ EndCallBody
    \/ CallBodyErr
    \/ CallArgErr

InitCall == InitWatching({})

SpecCall == InitCall /\ [][NextCall]_vars

(***************************************************************************)
(* Claims about output, RETURN and TRY/CATCH (specification Spec).         *)
(***************************************************************************)
Texts(out) == {out[i] : i \in DOMAIN out}

IsPrefix(a, b) == Len(a) <= Len(b) /\ SubSeq(b, 1, Len(a)) = a

Unwinding == mode = "err" /\ acc = StrV(ReturnSignal)

\* the try block of the activation on top has just ended with Err
TryBlockFailed == mode = "err" /\ Top.k = "Try" /\ Top.ph = "try"

\* the environment at index i is the same Environment object after the step
SameEnv(i) ==
    /\ i <= Len(envs) /\ i <= Len(envs')
    /\ ~(i = Len(envs) /\ TryBlockFailed)

\* C1: in a run that raises no runtime error, the output returned is the
\* concatenation, in execution order, of the texts the executed DISPLAY and
\* DISPLAYINLINE statements appended (stated for the runs without a
\* formatted-string assignment, whose echo is not a display); and no output
\* buffer ever loses or changes text it holds.
C1_OutputInExecutionOrder ==
    /\ []((mode = "done" /\ ~hist.raised /\ ~hist.echoed) => envs[1].out = log)
    /\ [][\A i \in DOMAIN envs : SameEnv(i) => IsPrefix(envs[i].out, envs'[i].out)]_vars

\* C2: RETURN inside a TRY block inside a procedure body is not caught: while
\* the CATCH block of a TRY runs, the procedure body around it has executed
\* no RETURN (unless that RETURN is the one unwinding right now).
C2_ReturnPassesTry ==
    \A i \in DOMAIN stack :
        (/\ stack[i].k = "Try" /\ stack[i].ph = "catch"
         /\ NearestCall(SubSeq(stack, 1, i)) # 0
         /\ stack[NearestCall(SubSeq(stack, 1, i))].rv # None)
        => Unwinding

\* C3: when the try block fails with a runtime error, every text appended
\* since the TRY was entered is in the enclosing environment's output when
\* the CATCH block starts.
C3_TryOutputKept ==
    [][(TryBlockFailed /\ ~Unwinding)
       => \A t \in Top.t0 .. (NextText - 1) :
              t \in Texts(envs'[Len(envs) - 1].out)]_vars

\* C4: an error that reaches a TRY makes its CATCH block run, with the catch
\* variable bound to the message; a try block that raised no error (it
\* executed RETURN) does not run the CATCH block.
CatchRuns ==
    /\ Len(stack') = Len(stack)
    /\ stack'[Len(stack')].ph = "catch"
    /\ mode' = "exec"
    /\ Top.var # "" => envs'[Len(envs')].vars[Top.var] = acc

C4_ErrorsAreCaught ==
    [][TryBlockFailed => IF Unwinding THEN ~CatchRuns ELSE CatchRuns]_vars

\* C5: once a procedure body has executed RETURN(e), nothing more of that
\* body runs (the Return signal is unwinding), and the call yields e.
C5_ReturnEndsTheCall ==
    /\ []((NearestCall(stack) # 0 /\ stack[NearestCall(stack)].rv # None)
          => Unwinding)
    /\ [][(Unwinding /\ Top.k = "Call" /\ Top.ph = "body")
          => (mode' \in {"exec", "val"} /\ acc' = Top.rv)]_vars

(***************************************************************************)
(* Claims about environments (specification SpecEnv).                      *)
(***************************************************************************)
\* the nearest environment of the chain that binds name (0: none)
Nearest(chain, name) ==
    LET binders == {i \in DOMAIN chain : chain[i].vars[name] # None}
    IN IF binders = {} THEN 0 ELSE CHOOSE i \in binders : \A j \in binders : j <= i

\* equal values, whichever Vec holds them
SameValue(a, b) == a.t = b.t /\ (IF a.t = "List" THEN a.l = b.l ELSE a = b)

\* the step that performs env.set for an assignment
SetStep == mode = "val" /\ Top.k = "Assign"

\* C6: get(name) returns the binding of the nearest environment on the chain
\* that binds name, or nothing when none does; set(name, value) binds name
\* to value in the innermost environment and changes no other binding of
\* the chain.
C6_GetNearestSetInnermost ==
    /\ [](\A name \in Names :
             IF Nearest(envs, name) = 0
                THEN EnvGet(envs, name) = None
                ELSE SameValue(EnvGet(envs, name),
                               envs[Nearest(envs, name)].vars[name]))
    /\ [][SetStep =>
             /\ Len(envs') = Len(envs)
             /\ SameValue(envs'[Len(envs)].vars[Top.var], acc)
             /\ \A i \in DOMAIN envs, name \in Names :
                    (i # Len(envs) \/ name # Top.var)
                    => envs'[i].vars[name] = envs[i].vars[name]]_vars

\* a read of x in a chain of three environments, where the root and the
\* middle one bind x differently, has delivered the middle one's value
C6_ShadowedRead ==
    /\ Len(envs) = 3
    /\ envs[1].vars["x"] = IntV(1)
    /\ envs[2].vars["x"] = IntV(2)
    /\ envs[3].vars["x"] = None
    /\ SetStep
    /\ acc = IntV(2)

(***************************************************************************)
(* Claims about lists (specification SpecList).                            *)
(***************************************************************************)
Slots == {<<i, name>> : i \in DOMAIN envs, name \in Names}

Held(chain, slot) == chain[slot[1]].vars[slot[2]]

\* the step is a list operation on the variable name
ListOpOn(name) ==
    \/ \E v \in ElemVals : ListAppend(name, v)
    \/ \E i \in Indices, v \in ElemVals : ListInsert(name, i, v)
    \/ \E i \in Indices : ListRemove(name, i)
    \/ \E i \in Indices, v \in ElemVals : ListAssignment(name, i, v)

\* C7: no two variables share a Vec, and APPEND, INSERT, REMOVE or an
\* indexed assignment on a variable changes the value of no other variable
\* of the chain (a copy made by assignment, the caller's list behind a
\* parameter).
C7_ListsAreValues ==
    /\ [](\A a \in Slots, b \in Slots :
             (a # b /\ Held(envs, a).t = "List" /\ Held(envs, b).t = "List")
             => Held(envs, a).id # Held(envs, b).id)
    /\ [][\A name \in ListNames :
             ListOpOn(name)
             => \A slot \in Slots :
                    slot # <<Len(envs), name>>
                    => Held(envs', slot) = Held(envs, slot)]_vars

\* after y <- x (or x <- y) a list operation was applied, and the two
\* variables hold different lists
C7_CopyThenChange ==
    /\ hist.changed
    /\ envs[1].vars["x"].t = "List"
    /\ envs[1].vars["y"].t = "List"
    /\ envs[1].vars["x"].l # envs[1].vars["y"].l

(***************************************************************************)
(* Claims about the depth limit (specification SpecDepth).                 *)
(***************************************************************************)
TooDeep == CallNesting(stack) > MAX_STACK_DEPTH

Overflowed == acc = StrV(StackOverflowMsg)

UntilFrames == {i \in DOMAIN stack : stack[i].k = "Until"}

\* the condition of the loop on top has just been evaluated
CondEvaluated == mode = "val" /\ Top.k = "Until"

\* the step enters a REPEAT UNTIL statement
LoopEntered ==
    /\ mode = "exec"
    /\ Len(stack') = Len(stack) + 1
    /\ stack'[Len(stack')].k = "Until"

\* C9: a REPEAT UNTIL execution runs its body at most max_iterations times;
\* after a false condition it runs the body again while it has run it fewer
\* times than that, and otherwise fails with the iteration error; the error
\* is raised in no other situation, so the count is the loop execution's
\* own, whatever the enclosing and the earlier loops have counted.
C9_UntilIterationCap ==
    /\ [](\A i \in UntilFrames : stack[i].runs <= max_iterations)
    /\ [][(CondEvaluated /\ acc = BoolV(FALSE)) =>
             IF Top.runs < max_iterations
                THEN /\ mode' = "exec"
                     /\ Len(stack') = Len(stack)
                     /\ stack'[Len(stack)].runs = Top.runs + 1
                ELSE /\ mode' = "err"
                     /\ acc' = StrV(MaxIterationsMsg)]_vars
    /\ [][(mode # "err" /\ mode' = "err" /\ acc' = StrV(MaxIterationsMsg)) =>
             (CondEvaluated /\ Top.runs = max_iterations)]_vars
    /\ [][LoopEntered => stack'[Len(stack')].runs = 1]_vars

\* a loop nested in the last iteration of another loop has itself run
\* max_iterations times and failed with the iteration error
C9_NestedLoopHitsCap ==
    /\ mode = "err"
    /\ acc = StrV(MaxIterationsMsg)
    /\ Len(stack) >= 3
    /\ Top.k = "Until"
    /\ Top.ph = "cond"
    /\ Top.runs = max_iterations
    /\ stack[Len(stack) - 1].k = "Until"
    /\ stack[Len(stack) - 1].runs = max_iterations

\* C10: the body runs before the condition is first evaluated, the condition
\* is evaluated after every execution of the body (never skipped because of
\* a stored return value), the loop ends the first time the condition is
\* true, and a condition that is not a boolean is an error.
C10_UntilIsDoWhile ==
    /\ [](\A i \in UntilFrames :
             /\ stack[i].runs >= 1
             /\ stack[i].conds \in {stack[i].runs - 1, stack[i].runs}
             /\ stack[i].ph = "body" => stack[i].conds = stack[i].runs - 1
             /\ stack[i].conds = stack[i].runs => (mode = "err" /\ i = Len(stack))
             /\ stack[i].last # BoolV(TRUE)
             /\ stack[i].ph = "body" => stack[i].last \in {None, BoolV(FALSE)})
    /\ []((mode = "exec" /\ Top.k = "Until") => CurEnv.ret = None)
    /\ [][LoopEntered => (/\ mode' = "exec"
                          /\ stack'[Len(stack')].ph = "body"
                          /\ stack'[Len(stack')].conds = 0)]_vars
    /\ [][CondEvaluated =>
             /\ acc = BoolV(TRUE) => (/\ stack' = Pop(stack)
                                      /\ mode' \in {"exec", "val"}
                                      /\ acc' = Unit)
             /\ acc.t # "Bool" => (/\ mode' = "err"
                                   /\ acc' = StrV(UntilNotBoolMsg))]_vars

\* the condition was true the first time it was evaluated, after one
\* execution of the body
C10_TrueAfterFirstBody ==
    /\ CondEvaluated
    /\ acc = BoolV(TRUE)
    /\ Top.runs = 1
    /\ Top.conds = 0

(***************************************************************************)
(* Claims about REPEAT n TIMES (specification SpecTimes).                  *)
(***************************************************************************)
TimesFrames == {i \in DOMAIN stack : stack[i].k = "Times"}

\* the count of the loop on top has just been evaluated
CountEvaluated == mode = "val" /\ Top.k = "Times"

\* the step ends the loop on top with Ok
TimesLoopEnds ==
    /\ mode = "exec"
    /\ Top.k = "Times"
    /\ stack' = Pop(stack)
    /\ mode' # "err"

\* C11: REPEAT n TIMES runs its body max(n, 0) times: not at all for n <= 0,
\* and otherwise the loop ends with Ok exactly when the body has run n
\* times; the count is the value the count expression had when the loop
\* was entered, whatever the body assigns afterwards; a count that is not
\* an integer is an error.
C11_RepeatTimes ==
    /\ [](\A i \in TimesFrames :
             stack[i].ph = "body" => (1 <= stack[i].runs /\ stack[i].runs <= stack[i].cnt))
    /\ [][CountEvaluated =>
             IF acc.t # "Int"
                THEN mode' = "err" /\ acc' = StrV(CountNotIntMsg)
                ELSE IF acc.n <= 0
                        THEN /\ stack' = Pop(stack)
                             /\ mode' \in {"exec", "val"}
                             /\ acc' = Unit
                        ELSE /\ mode' = "exec"
                             /\ Len(stack') = Len(stack)
                             /\ stack'[Len(stack)].ph = "body"
                             /\ stack'[Len(stack)].cnt = acc.n
                             /\ stack'[Len(stack)].runs = 1]_vars
    /\ [][TimesLoopEnds => (Top.runs = Top.cnt /\ acc' = Unit)]_vars
    /\ [][\A i \in TimesFrames :
             (stack[i].ph = "body" /\ i <= Len(stack'))
             => /\ stack'[i].k = "Times"
                /\ stack'[i].ph = "body"
                /\ stack'[i].cnt = stack[i].cnt
                /\ stack'[i].runs \in {stack[i].runs, stack[i].runs + 1}]_vars

\* a loop whose count was read from x as 2 runs its body for the second time
\* although x has been assigned 1 in the meantime
C11_CountChangedInBody ==
    /\ mode = "exec"
    /\ Top.k = "Times"
    /\ Top.src = "x"
    /\ Top.cnt = 2
    /\ Top.runs = 2
    /\ EnvGet(envs, "x") = IntV(1)

(***************************************************************************)
(* Claims about AND and OR (specification SpecLogic).                      *)
(***************************************************************************)
LeftEvaluated == mode = "val" /\ Top.k = "Logic" /\ Top.ph = "left"

RightEvaluated == mode = "val" /\ Top.k = "Logic" /\ Top.ph = "right"

\* the left operand value that makes the operator evaluate its right operand
Decides(op) == BoolV(op = "AND")

\* C12: the right operand of AND is evaluated only after a left operand that
\* is Boolean true, the right operand of OR only after a left operand that
\* is Boolean false; the other boolean left operand is the result without
\* the right operand being evaluated; and a left or right operand that is
\* not a boolean makes the operation fail.
C12_ShortCircuit ==
    /\ [](\A i \in DOMAIN stack :
             (stack[i].k = "Logic" /\ stack[i].ph = "right")
             => stack[i].left = Decides(stack[i].op))
    /\ [][LeftEvaluated =>
             IF acc.t # "Bool" THEN mode' = "err"
             ELSE IF acc = Decides(Top.op)
                     THEN mode' = "eval" /\ Len(stack') = Len(stack)
                     ELSE /\ stack' = Pop(stack)
                          /\ mode' \in {"exec", "val"}
                          /\ acc' = acc]_vars
    /\ [][RightEvaluated =>
             IF acc.t # "Bool" THEN mode' = "err"
             ELSE /\ stack' = Pop(stack)
                  /\ mode' \in {"exec", "val"}
                  /\ acc' = acc]_vars

(***************************************************************************)
(* Claims about evaluate_binary_op (specification SpecArith).              *)
(***************************************************************************)
\* both operands of the operation on top have been evaluated
BinaryApplied == mode = "val" /\ Top.k = "Bin" /\ Top.ph = "right"

IntegerOperands == BinaryApplied /\ Top.left.t = "Int" /\ acc.t = "Int"

\* the mathematical result of a op b
Exact(op, a, b) ==
    CASE op = "Add" -> a + b
      [] op = "Sub" -> a - b
      [] op = "Mul" -> a * b

\* the step hands the value v to the enclosing activation
Yields(v) == stack' = Pop(stack) /\ mode' \in {"exec", "val"} /\ acc' = v

\* C13: for integers a and b and op among +, -, *, the result is
\* Integer(a op b) when the mathematical result is in the i64 range and
\* otherwise the Float computed from both operands converted to float (so
\* never a wrapped integer, never a panic); and no subexpression of the
\* overflow test is itself out of range.
C13_IntegerOverflow ==
    /\ []((IntegerOperands /\ Top.op \in {"Add", "Sub", "Mul"})
          => \A t \in CheckTerms(Top.op, Top.left.n, acc.n) : InRange(t))
    /\ [][(IntegerOperands /\ Top.op \in {"Add", "Sub", "Mul"})
          => IF InRange(Exact(Top.op, Top.left.n, acc.n))
                THEN Yields(IntV(Exact(Top.op, Top.left.n, acc.n)))
                ELSE Yields(FloatArith(Top.op, AsF64(Top.left), AsF64(acc)))]_vars

\* the smallest integer is about to be multiplied by -1: the product is one
\* more than the largest integer
C13_ProductOutOfRange ==
    /\ IntegerOperands
    /\ Top.op = "Mul"
    /\ Top.left = IntV(i64_MIN)
    /\ acc = IntV(-1)

\* q is the quotient of a by b truncated toward zero
IsTruncQuotient(q, a, b) ==
    /\ Abs(q) * Abs(b) <= Abs(a)
    /\ Abs(a) < (Abs(q) + 1) * Abs(b)
    /\ q # 0 => ((q < 0) = ((a < 0) # (b < 0)))

IsZero(v) == v = IntV(0) \/ (v.t = "Float" /\ v.n = 0)

\* the step fails with the message msg
Fails(msg) == mode' = "err" /\ acc' = StrV(msg)

\* C14: for integers a and b # 0, a / b is the Integer quotient truncated
\* toward zero and a MOD b the Integer remainder of that division; with a
\* zero right operand, / on integer or float operands fails with "Division
\* by zero" and MOD on integers with "Modulo by zero".
C14_DivisionAndModulo ==
    /\ [][(IntegerOperands /\ Top.op = "Div" /\ acc.n # 0)
          => /\ stack' = Pop(stack)
             /\ mode' \in {"exec", "val"}
             /\ acc'.t = "Int"
             /\ IsTruncQuotient(acc'.n, Top.left.n, acc.n)]_vars
    /\ [][(IntegerOperands /\ Top.op = "Mod" /\ acc.n # 0)
          => /\ stack' = Pop(stack)
             /\ mode' \in {"exec", "val"}
             /\ acc'.t = "Int"
             /\ \E q \in i64_MIN - 1 .. i64_MAX + 1 :
                    /\ IsTruncQuotient(q, Top.left.n, acc.n)
                    /\ acc'.n = Top.left.n - acc.n * q]_vars
    /\ [][(BinaryApplied /\ Top.op = "Div" /\ Top.left.t \in {"Int", "Float"}
           /\ IsZero(acc))
          => Fails(DivisionByZeroMsg)]_vars
    /\ [][(IntegerOperands /\ Top.op = "Mod" /\ acc.n = 0)
          => Fails(ModuloByZeroMsg)]_vars

(***************************************************************************)
(* Claims about NaN (specification SpecNaN).                               *)
(***************************************************************************)
NaNOperand == BinaryApplied /\ (Top.left = NaN \/ acc = NaN)

\* C15 as amended: NaN = v and v = NaN are false and NaN NOT= v and
\* v NOT= NaN are true for every value v, and each of +, -, *, /, MOD, <,
\* <=, >, >= evaluates to NaN when an operand is NaN.
C15_NaNArithmetic ==
    [][NaNOperand =>
          CASE Top.op = "Eq" -> Yields(BoolV(FALSE))
            [] Top.op = "NotEq" -> Yields(BoolV(TRUE))
            [] OTHER -> Yields(NaN)]_vars

\* C15 as stated: the same, and every other binary operator, AND and OR
\* among them, evaluates to NaN when an operand is NaN.
C15_NaNOperand ==
    /\ C15_NaNArithmetic
    /\ [][(RightEvaluated /\ (Top.left = NaN \/ acc = NaN)) => Yields(NaN)]_vars

\* NaN is about to be compared with NULL for inequality
C15_NaNAgainstNull ==
    /\ NaNOperand
    /\ Top.op = "NotEq"
    /\ Top.left = NaN
    /\ acc = Null

(***************************************************************************)
(* Claims about the text of DISPLAY (specification SpecShow).              *)
(***************************************************************************)
\* the text the claim states for a value without a Float
RECURSIVE StatedText(_)
StatedText(v) ==
    CASE v.t = "Int" -> Decimal(v.n)
      [] v.t = "Bool" -> IF v.b THEN "true" ELSE "false"
      [] v.t = "Str" -> v.s
      [] v.t = "List" -> "[" \o Join([i \in DOMAIN v.l |-> StatedText(v.l[i])]) \o "]"
      [] v.t = "Null" -> "NULL"
      [] v.t = "NaN" -> "NaN"
      [] v.t = "Unit" -> ""

\* the value of the DISPLAY on top has just been evaluated
DisplayEvaluated == mode = "val" /\ Top.k = "Display"

\* C16: the text DISPLAY appends for a value is its decimal digits for an
\* integer, true or false for a boolean, the string itself for a string,
\* the bracketed renderings of the elements separated by ", " for a list,
\* NULL for NULL, NaN for NaN and the empty string for Unit.
C16_DisplayText ==
    [][DisplayEvaluated => hist'.text = StatedText(acc)]_vars

(***************************************************************************)
(* Indexing is 1-based.                                                    *)
(***************************************************************************)
\* the list bound to name before the step, and after it
Before(name) == EnvGet(envs, name).l
After(name) == EnvGet(envs', name).l
OnList(name) == EnvGet(envs, name).t = "List"
OutOfBoundsErrors(i, size) ==
    {StrV(IndexOutOfBoundsMsg), StrV(IndexBelowMsg), StrV(IndexAboveMsg(i, size))}
FailsOutOfBounds(i, size) == mode' = "err" /\ acc' \in OutOfBoundsErrors(i, size)
Delivers(v) == mode' \in {"exec", "val"} /\ acc' = v
Untouched(name) == EnvGet(envs', name) = EnvGet(envs, name)

\* C17: for a list L and an integer i, L[i] yields the i-th element when
\* 1 <= i <= LENGTH(L) and fails with an out-of-bounds error otherwise; the
\* indexed assignment L[i] <- v has the same bounds, and in range it replaces
\* exactly element i, leaving the length and every other element as they were.
C17_OneBasedIndexing ==
    [][\A name \in IndexNames, i \in AnyIndex :
         OnList(name) =>
           /\ ListAccess(name, i) =>
                IF 1 <= i /\ i <= Len(Before(name))
                   THEN Delivers(Before(name)[i]) /\ Untouched(name)
                   ELSE FailsOutOfBounds(i, Len(Before(name)))
           /\ \A v \in ElemVals :
                ListAssignment(name, i, v) =>
                  IF 1 <= i /\ i <= Len(Before(name))
                     THEN /\ Len(After(name)) = Len(Before(name))
                          /\ After(name)[i] = IntV(v)
                          /\ \A k \in 1..Len(Before(name)) :
                                k # i => After(name)[k] = Before(name)[k]
                     ELSE FailsOutOfBounds(i, Len(Before(name)))]_vars

(***************************************************************************)
(* INSERT.                                                                 *)
(***************************************************************************)
\* C18: INSERT(x, i, v) succeeds exactly for 1 <= i <= LENGTH(x) + 1: then x
\* has one more element, v is at position i, the elements before position i
\* are as they were and those from position i on are one position higher;
\* for any other integer i it fails with "List index out of bounds" and x is
\* unchanged.
C18_Insert ==
    [][\A name \in IndexNames, i \in AnyIndex, v \in ElemVals :
         (OnList(name) /\ ListInsert(name, i, v)) =>
           IF 1 <= i /\ i <= Len(Before(name)) + 1
              THEN /\ Len(After(name)) = Len(Before(name)) + 1
                   /\ After(name)[i] = IntV(v)
                   /\ \A k \in 1..Len(Before(name)) :
                         After(name)[IF k < i THEN k ELSE k + 1] = Before(name)[k]
              ELSE Fails(IndexOutOfBoundsMsg) /\ Untouched(name)]_vars

(***************************************************************************)
(* REMOVE.                                                                 *)
(***************************************************************************)
\* C19: REMOVE(x, i) for 1 <= i <= LENGTH(x) returns the element that was at
\* position i and leaves x the old list without that element, the others in
\* their order; for any other integer i it fails with "List index out of
\* bounds" and x is unchanged.
C19_Remove ==
    [][\A name \in IndexNames, i \in AnyIndex :
         (OnList(name) /\ ListRemove(name, i)) =>
           IF 1 <= i /\ i <= Len(Before(name))
              THEN /\ Delivers(Before(name)[i])
                   /\ Len(After(name)) = Len(Before(name)) - 1
                   /\ \A k \in 1..Len(After(name)) :
                         After(name)[k] = Before(name)[IF k < i THEN k ELSE k + 1]
              ELSE Fails(IndexOutOfBoundsMsg) /\ Untouched(name)]_vars

(***************************************************************************)
(* Indexed assignment through several indices.                             *)
(***************************************************************************)
\* every index of path addresses an element of the list it is applied to
RECURSIVE Addresses(_, _)
Addresses(value, path) ==
    \/ path = <<>>
    \/ /\ value.t = "List"
       /\ Head(path) \in 1..Len(value.l)
       /\ Addresses(value.l[Head(path)], Tail(path))

\* the elements l with the element addressed by path replaced by v
RECURSIVE Replaced(_, _, _)
Replaced(l, path, v) ==
    [l EXCEPT ![Head(path)] =
        IF Len(path) = 1 THEN v ELSE ListV(Replaced(@.l, Tail(path), v), @.id)]

\* C20: an indexed assignment with one, two or three indices, every index in
\* range, replaces exactly the addressed element of the nested list bound to
\* x, binds the changed outer list to x, and leaves every other element at
\* every level as it was.
C20_NestedAssignment ==
    [][\A name \in IndexNames, v \in ElemVals :
         /\ \A i \in Indices :
               (ListAssignment(name, i, v) /\ Addresses(EnvGet(envs, name), <<i>>))
                  => After(name) = Replaced(Before(name), <<i>>, IntV(v))
         /\ \A path \in Paths, j \in Indices :
               (/\ NestedListAssignment(name, path, j, v)
                /\ Addresses(EnvGet(envs, name), Append(path, j)))
                  => /\ mode' # "err"
                     /\ After(name) = Replaced(Before(name), Append(path, j), IntV(v))]_vars

(***************************************************************************)
(* Argument binding.                                                       *)
(***************************************************************************)
Bound(variables) == {name \in Names : variables[name] # None}
InArgs == Top.k = "Call" /\ Top.ph = "args"
BodyStarts == (CallArg \/ \E ps \in ParamLists, k \in 0..2 : CallProcedure(TRUE, ps, k))
                 /\ Top'.k = "Call" /\ Top'.ph = "body"
\* the bindings the call has made so far, after the step
Bindings == IF Top'.ph = "body" THEN CurEnv'.vars ELSE Top'.loc
Shorter(m, k) == IF m < k THEN m ELSE k

\* C21: a call binds exactly the first min(m, k) parameters, in order, to the
\* values of the corresponding arguments; each argument is evaluated in the
\* caller's environment, where the bindings already made for the call are
\* not visible; different counts of parameters and arguments raise no error
\* (the only error entering the call can raise is the one of the depth limit).
C21_ArgumentBinding ==
    [][/\ BodyStarts =>
            /\ Bound(CurEnv'.vars) =
                  {Top'.params[i] : i \in 1..Shorter(Len(Top'.params), Top'.args)}
            /\ Pop(envs') = envs
       /\ CallArg =>
            LET i == Cardinality(Bound(Top.loc)) + 1
            IN /\ Bindings[Top.params[i]] = acc
               /\ \A name \in Names \ {Top.params[i]} : Bindings[name] = Top.loc[name]
       /\ \A name \in CallNames :
            (InArgs /\ EvalIdentifier(name)) =>
               IF EnvGet(envs, name) = None
                  THEN Fails(UndefinedMsg(name))
                  ELSE mode' = "val" /\ acc' = EnvGet(envs, name)
       /\ \A ps \in ParamLists, k \in 0..2 :
            (CallProcedure(TRUE, ps, k) /\ Len(ps) # k /\ mode' = "err")
               => Fails(StackOverflowMsg)]_vars

\* the second argument of a call has been evaluated to the caller's value of
\* a variable whose name the first argument was bound to with another value
C21_EarlierBindingUnseen ==
    /\ InArgs /\ mode = "val"
    /\ Top.params = <<"x", "y">> /\ Top.n = 1
    /\ Top.loc["x"] = IntV(2)
    /\ EnvGet(envs, "x") = IntV(1)
    /\ acc = IntV(1)

(***************************************************************************)
(* The lexer never fails.                                                  *)
(***************************************************************************)
Lexing == mode = "lex" /\ Top.k = "Lexer"
StartsNoToken(c) == c \in {"#", "."}

\* C22: for every source text tokenization ends with a token sequence and
\* never aborts: every turn of the lexer consumes input or ends the run, a
\* character that starts no token becomes a one-character Identifier token,
\* and no numeric literal, comment or string makes the lexer fail.
C22_LexerNeverFails ==
    /\ [](mode # "abort")
    /\ [][Lexing =>
            /\ mode' \in {"lex", "lexed"}
            /\ mode' = "lex" => Top'.pos > Top.pos
            /\ mode' = "lexed" => Top'.pos = Len(Top.input)
            /\ (Top.pos < Len(Top.input) /\ StartsNoToken(Top.input[Top.pos + 1])) =>
                  /\ Top'.tokens =
                        Append(Top.tokens, Token("Identifier", Top.input[Top.pos + 1]))
                  /\ Top'.pos = Top.pos + 1]_vars

(***************************************************************************)
(* Parse errors.                                                           *)
(***************************************************************************)
\* line and column, both from 1, of the character at the offset in source
LineOf(source, offset) ==
    1 + Cardinality({i \in 1..offset : source[i] = "\n"})
ColumnOf(source, offset) ==
    LET breaks == {i \in 1..offset : source[i] = "\n"}
    IN offset + 1 - (IF breaks = {} THEN 0
                     ELSE CHOOSE i \in breaks : \A j \in breaks : j <= i)
\* the first token that no statement of the grammar starts with
Offending(tokens) == {i \in 1..Len(tokens) : tokens[i].k \notin {"Identifier", "Newline"}}
FirstOffending(tokens) ==
    CHOOSE i \in Offending(tokens) : \A j \in Offending(tokens) : i <= j

C24_Substring ==
    [][\A s \in Characters, a \in AnyIndex, b \in AnyIndex :
         Substring(s, a, b) =>
            IF 1 <= a /\ a <= b /\ b <= Len(s)
               THEN Delivers(StrV(Text(SubSeq(s, a, b), 0, b - a + 1)))
               ELSE mode' = "err"]_vars

(***************************************************************************)
(* SORT.                                                                   *)
(***************************************************************************)
Sorting == mode = "val" /\ Top.k = "Sort" /\ acc.t = "List"
SameElements(l, m) ==
    /\ Len(l) = Len(m)
    /\ \A v \in {l[i] : i \in DOMAIN l} :
          Cardinality({i \in DOMAIN l : l[i] = v}) = Cardinality({i \in DOMAIN m : m[i] = v})

ScopeOf(i) ==
    1 + Cardinality({j \in 1..i : \/ stack[j].k = "Try"
                                  \/ stack[j].k = "Call" /\ stack[j].ph = "body"})

VarsOf(chain) == [i \in DOMAIN chain |-> chain[i].vars]

Ends(kinds) == Top.k \in kinds /\ stack' = Pop(stack)

\* C26: a variable scope is created only by a procedure call and by a TRY
\* or CATCH block.  The environments are as many as the root, the TRY/CATCH
\* statements and the procedure bodies being evaluated; a step adds one only
\* by entering a call or a TRY and removes one only by leaving one; an
\* assignment writes the innermost of them, and the end of an IF, a REPEAT
\* or a FOR EACH leaves every binding as its body made it; while a
\* TRY/CATCH statement is being evaluated no step changes a binding of the
\* environments that enclose it, and the step that finishes it drops every
\* binding made inside, the catch variable included.
C26_Scopes ==
    [][/\ Len(envs) = ScopeOf(Len(stack))
       /\ Len(envs') > Len(envs) =>
              Top'.k \in {"Call", "Try"} /\ Len(envs') = Len(envs) + 1
       /\ Len(envs') < Len(envs) => Ends({"Call", "Try"})
       /\ AssignmentValue =>
              /\ EnvGet(<<envs'[ScopeOf(Len(stack))]>>, Top.var) = Clone(acc)
              /\ \A i \in DOMAIN envs : \A name \in Names :
                     (i # Len(envs) \/ name # Top.var) =>
                         envs'[i].vars[name] = envs[i].vars[name]
       /\ Ends({"If", "Until", "ForEach"}) => VarsOf(envs') = VarsOf(envs)
       /\ Ends({"Try"}) => VarsOf(envs') = VarsOf(Pop(envs))
       /\ \A i \in DOMAIN stack :
              (stack[i].k = "Try" /\ i \in DOMAIN stack') =>
                  \A j \in 1..(ScopeOf(i) - 1) : envs'[j].vars = envs[j].vars
      ]_vars

\* the run is back at the top level after one assignment or APPEND, the
\* loop variable of a FOR EACH is still bound and the assigned name is not:
\* the write was made inside a TRY/CATCH
C26_TryBindingDiscarded ==
    /\ stack = <<[k |-> "Program"]>>
    /\ mode = "exec"
    /\ hist.writes = 1
    /\ envs[1].vars["y"] # None
    /\ envs[1].vars["x"] = None

(***************************************************************************)
(* C27: a callee and its caller's variables.                               *)
(***************************************************************************)
\* the procedure bodies being evaluated, as positions of the stack
Bodies == {i \in DOMAIN stack : stack[i].k = "Call" /\ stack[i].ph = "body"}

\* the chain of the caller of the body at position i
CallerChain(i) == SubSeq(envs, 1, ScopeOf(i) - 1)

\* the environments of the innermost body and of the TRY blocks in it
OwnChain == SubSeq(envs, ScopeOf(NearestCall(stack)), Len(envs))

Reads(name) == EvalIdentifier(name) /\ NearestCall(stack) # 0

\* C27: a procedure call never changes a variable binding of its caller or
\* of the program root.  While a procedure body is being evaluated no step
\* (assignment, APPEND, INSERT, REMOVE, indexed assignment) changes a
\* binding of the environments of its caller, and the step that ends the
\* call leaves the caller's chain; a step of the body that writes a name
\* binds it in the innermost environment; a read of a name the callee has
\* not bound gives the value that the caller's chain gives.
C27_CalleeWritesOwnScope ==
    [][/\ \A i \in Bodies :
              i \in DOMAIN stack' =>
                  VarsOf(SubSeq(envs', 1, ScopeOf(i) - 1)) = VarsOf(CallerChain(i))
       /\ (Ends({"Call"}) /\ Top.ph = "body") =>
              VarsOf(envs') = VarsOf(Pop(envs))
       /\ (Bodies # {} /\ hist'.writes > hist.writes) =>
              \E name \in Names :
                  /\ envs'[Len(envs)].vars[name] # None
                  /\ \A other \in Names \ {name} :
                         envs'[Len(envs)].vars[other] = envs[Len(envs)].vars[other]
       /\ \A name \in Names :
              (Reads(name) /\ EnvGet(OwnChain, name) = None) =>
                  IF EnvGet(CallerChain(NearestCall(stack)), name) = None
                     THEN mode' = "err"
                     ELSE Delivers(EnvGet(CallerChain(NearestCall(stack)), name))
      ]_vars

\* in a procedure called without arguments an APPEND has just made the
\* callee's own list of x, one element longer than the caller's
C27_CalleeAppendShadows ==
    /\ Len(stack) = 2
    /\ Top.k = "Call" /\ Top.ph = "body" /\ Top.args = 0
    /\ mode = "exec"
    /\ hist.writes = 2
    /\ envs[1].vars["x"].t = "List"
    /\ envs[2].vars["x"].t = "List"
    /\ envs[2].vars["x"].l = Append(envs[1].vars["x"].l, IntV(2))

(***************************************************************************)
(* C28: the recursion-depth counter.                                       *)
(***************************************************************************)
\* C28: the global recursion-depth counter always equals the number of
\* procedure calls currently being evaluated, the stack-overflow error is
\* raised only when the call nesting exceeds the limit, and the counter is
\* zero at the end of every run.
C28_DepthCounter ==
    /\ [](depth = CallNesting(stack))
    /\ [](mode \in {"done", "fail"} => depth = 0)
    /\ [][StackOverflow => CallNesting(stack) > MAX_STACK_DEPTH]_vars

(***************************************************************************)
(* C29: NOT= against =.                                                    *)
(***************************************************************************)
\* a = b evaluates to a boolean
EqIsBoolean(a, b) ==
    \A res \in evaluate_binary_op(a, "Eq", b) : res.r = "Ok" /\ res.v.t = "Bool"

NotEqApplied == BinaryApplied /\ Top.op = "NotEq" /\ Top.left # NaN /\ acc # NaN

\* C29: for all values a and b, neither of them NaN, for which a = b
\* evaluates to a boolean, a NOT= b evaluates to the negation of a = b;
\* NULL NOT= v is true for every v that is neither NULL nor NaN, and
\* NULL NOT= NULL is false.
C29_NotEqNegatesEq ==
    /\ [][(NotEqApplied /\ EqIsBoolean(Top.left, acc)) =>
             \E res \in evaluate_binary_op(Top.left, "Eq", acc) :
                 Yields(BoolV(~res.v.b))]_vars
    /\ [][(NotEqApplied /\ Top.left = Null) => Yields(BoolV(acc # Null))]_vars

(***************************************************************************)
(* C30: integer division, MOD, unary minus and ABS are total.              *)
(***************************************************************************)
Applied(kind) == mode = "val" /\ Top.k = kind

\* C30: for all integers a and b of the width, each of a / b, a MOD b,
\* unary -a and ABS(a) evaluates to a value or to a runtime error; none of
\* them overflows or aborts the interpreter, the smallest integer with -1
\* included.
C30_NoOverflow ==
    [][(\/ IntegerOperands /\ Top.op \in {"Div", "Mod"}
        \/ Applied("Unary") /\ Top.op = "Neg" /\ acc.t = "Int"
        \/ Applied("Abs") /\ acc.t = "Int")
       => /\ mode' \in {"exec", "val", "err"}
          /\ mode' # "err" => acc'.t = "Int" /\ InRange(acc'.n)
          /\ (Applied("Unary") /\ mode' # "err") => acc'.n = -acc.n
          /\ (Applied("Abs") /\ mode' # "err") => acc'.n = Abs(acc.n)]_vars

====
